---- MODULE Spec2Model ----
(***************************************************************************)
(* A model of the AiMesh core: the cost-aware router with its budget book  *)
(* (src/src/routing/mod.rs), the rate limiter (src/src/ratelimit/mod.rs)   *)
(* and the request pipeline (src/src/lib.rs).                              *)
(*                                                                         *)
(* Numbers.  The code computes in f64/f32.  The model uses exact integers: *)
(* scores are carried multiplied by 10 (weights 0.4/0.3/0.3 become 4/3/3), *)
(* and the metric and token domains are chosen so that every division the  *)
(* code performs (load*100/capacity, cost*tokens/1000) is exact.  NaN and  *)
(* rounding are outside the model.                                         *)
(***************************************************************************)
EXTENDS Integers, Sequences, FiniteSets, TLC

VARIABLES
    endpoints,        \* CostAwareRouter.endpoints: endpoint key -> Endpoint
    budgets,          \* CostAwareRouter.budgets: agent id -> BudgetInfo
    routing_history,  \* CostAwareRouter.routing_history, one entry per decision
    last,             \* the most recent completed route call and what it returned
    frame,            \* per task: the call it is executing and where it stands
    guard,            \* budgets' write guards held: agent id -> holding task
    ret,              \* per task: what its last completed call returned
    accepted,         \* per agent: sum of the amounts consume_budget accepted
                      \* since the last set_budget / reset_budget (history variable)
    now,              \* the clock, in milliseconds since the system was built
    rl_config,        \* RateLimiter.config
    global_bucket,    \* RateLimiter.global_bucket
    buckets,          \* RateLimiter.buckets: key -> TokenBucket
    windows,          \* RateLimiter.windows: key -> SlidingWindow
    dedup_cache,      \* StorageLayer.dedup_cache: hash -> (timestamp, result)
    message_cache,    \* StorageLayer.message_cache, the message ids it holds
    stats,            \* ObservabilityLayer: its counters
    storage_config,   \* StorageLayer.config (dedup_ttl_secs)
    tenants,          \* TenantManager.tenants: tenant id -> Tenant
    usage,            \* TenantManager.usage: tenant id -> TenantUsage
    agent_tenants,    \* TenantManager.agent_tenants: agent id -> tenant id
    pq_config,        \* PriorityQueue.config
    pq_heap,          \* PriorityQueue.heap: the array of the binary heap
    pq_notify,        \* PriorityQueue.notify_tx/notify_rx: the notifications in the channel
    dd_config,        \* SemanticDeduplicator: ttl_secs and whether storage is attached
    dd_cache,         \* SemanticDeduplicator.cache: hash -> (timestamp, result)
    dd_done,          \* per hash and result: when a record of it last completed
                      \* (history variable, -1 when never)
    dd_last,          \* per hash: the result of the record that completed last
                      \* (history variable)
    tb,               \* a TokenBucket shared by the tasks: tokens and last_refill
    tb_lock,          \* TokenBucket.last_refill's mutex: the task holding it, or "free"
    tb_admitted,      \* the tokens the bucket's try_acquire calls admitted
                      \* (history variable)
    tb_refilled,      \* the tokens the bucket's refill calls computed as new
                      \* (history variable)
    orch_tasks        \* OrchestrationEngine.tasks: task id -> TaskState

routerVars == <<endpoints, budgets, routing_history>>
taskVars == <<frame, guard, ret>>
limiterVars == <<rl_config, global_bucket, buckets, windows>>
\* What the router's operations leave alone, and what the limiter's do.
meshVars == <<dedup_cache, message_cache, stats>>
dedupVars == <<dd_config, dd_cache, dd_done, dd_last>>
\* What the operations of the AiMesh instance leave alone.
tenantVars == <<tenants, usage, agent_tenants>>
queueVars == <<pq_config, pq_heap, pq_notify>>
bucketVars == <<tb, tb_lock, tb_admitted, tb_refilled>>
engineVars == <<orch_tasks>>
outsideMesh == <<storage_config, bucketVars, engineVars, dedupVars, tenantVars, queueVars>>
outsideDedup == <<routerVars, last, guard, accepted, limiterVars, message_cache, stats,
                  storage_config, bucketVars, engineVars, dd_config, tenantVars, queueVars>>
outsideRouter == <<now, limiterVars, meshVars, outsideMesh>>
outsideLimiter == <<now, routerVars, taskVars, accepted, meshVars, outsideMesh>>
vars == <<endpoints, budgets, routing_history, last, frame, guard, ret, accepted,
          now, rl_config, global_bucket, buckets, windows,
          dedup_cache, message_cache, stats, storage_config,
          dd_config, dd_cache, dd_done, dd_last, tb, tb_lock, tb_admitted, tb_refilled,
          orch_tasks,
          tenants, usage, agent_tenants, pq_config, pq_heap, pq_notify>>

(***************************************************************************)
(* Bounds of the model                                                     *)
(***************************************************************************)
MaxHistory == 1     \* successful routes are explored while the history is shorter
MaxFailures == 3    \* record_endpoint_failure is explored up to this count
MaxRemaining == 3   \* consume_budget calls are explored while they leave at most this
MaxTime == 1000     \* the clock is advanced up to this many milliseconds
MaxCalls == 3       \* process_message calls that reach the rate limiter
MaxDedupTime == 3   \* seconds over which the deduplicator is explored
DedupTtl == 2       \* ttl_secs of the deduplicator and its store in SpecDedup
MaxTenantMessages == 2  \* direct record_message calls per tenant and day
MaxQueueSize == 3   \* max_size of the queue in SpecQueue
MaxQueueTime == 2   \* seconds over which the queue is explored
MaxNotifications == 4  \* accepted pushes on the queue
MaxSteps == 2       \* steps of a task graph

(***************************************************************************)
(* Program constants                                                       *)
(***************************************************************************)
CostWeight10 == 4            \* ScoringWeights::default().cost_weight    = 0.4
LoadWeight10 == 3            \* ScoringWeights::default().load_weight    = 0.3
LatencyWeight10 == 3         \* ScoringWeights::default().latency_weight = 0.3
UnhealthyThreshold == 3      \* RouterConfig::default().unhealthy_threshold
HistoryCap == 10000          \* record_decision: history.len() > 10000
HistoryDrain == 1000         \* record_decision: history.drain(0..1000)
F64Max == 999999             \* stands for f64::MAX
DeadlineMax == 1000000       \* stands for i64::MAX
MaxPayloadSize == 1048576    \* protocol::MAX_PAYLOAD_SIZE
DedupTtlSecs == 3600         \* StorageConfig::default().dedup_ttl_secs
U64Max == 2000000000         \* u64::MAX and u32::MAX (any value no counter reaches)

(***************************************************************************)
(* Domains                                                                 *)
(***************************************************************************)
EndpointIds == {"e1", "e2", "e3", "e4"}

\* Lexicographic rank of an endpoint id ("e1" < "e2" < "e3" < "e4").
IdRank(id) == CASE id = "e1" -> 1 [] id = "e2" -> 2 [] id = "e3" -> 3 [] id = "e4" -> 4

HealthStatuses == {"Unknown", "Healthy", "Degraded", "Unhealthy"}

\* Agent ids are strings, modelled as sequences of characters.
Agent1 == <<"a", "1">>
Agent2 == <<"a", "2">>
Agents == {Agent1, Agent2}

\* (cost_per_1k_tokens, current_load, capacity, latency_p99_ms) of the
\* endpoints that get registered.  PA and PB differ and score the same;
\* PC has capacity 0; PD is loaded beyond its capacity.
PA == [cost_per_1k_tokens |-> 1000, current_load |-> 1, capacity |-> 2, latency_p99_ms |-> 0]
PB == [cost_per_1k_tokens |-> 1000, current_load |-> 0, capacity |-> 2, latency_p99_ms |-> 50]
PC == [cost_per_1k_tokens |-> 500, current_load |-> 0, capacity |-> 0, latency_p99_ms |-> 10]
PD == [cost_per_1k_tokens |-> 2000, current_load |-> 2, capacity |-> 1, latency_p99_ms |-> 0]
Profiles == {PA, PB, PC, PD}

\* protocol::EndpointMetrics (the fields the router reads).
Metrics(id, p, h) ==
    [endpoint_id |-> id,
     capacity |-> p.capacity,
     current_load |-> p.current_load,
     cost_per_1k_tokens |-> p.cost_per_1k_tokens,
     latency_p99_ms |-> p.latency_p99_ms,
     health_status |-> h]

\* The EndpointMetrics handed to register_endpoint / update_endpoint_metrics.
\* PA and PB tie, so "e1", "e2" and "e4" can tie pairwise and all three.
MetricsInputs ==
    {Metrics("e1", p, h) : p \in {PA, PD}, h \in HealthStatuses}
    \cup {Metrics("e2", PB, h) : h \in {"Healthy", "Degraded"}}
    \cup {Metrics("e3", PC, h) : h \in {"Healthy", "Unknown"}}
    \cup {Metrics("e4", PA, h) : h \in {"Healthy", "Unhealthy"}}


\* Token amounts: estimated_cost_tokens of a request and the amounts handed
\* to set_budget / consume_budget (f64 in the code, so they may be negative).
BudgetAmounts == {0, 2}          \* set_budget(agent, initial_tokens)
EstimatedCosts == {-2, 2, 4}     \* AiMessage.estimated_cost_tokens
ConsumeAmounts == {-1, 1, 2}     \* consume_budget(agent, tokens)

\* protocol::AiMessage (the fields the core reads).
Msg(a, est) ==
    [message_id |-> <<a, est>>,
     agent_id |-> a,
     payload |-> "X",
     payload_len |-> 1,
     dedup_context |-> "c1",
     estimated_cost_tokens |-> est,
     budget_tokens |-> 100,
     deadline_ms |-> DeadlineMax,
     priority |-> 50]

Messages == {Msg(Agent1, est) : est \in EstimatedCosts} \cup {Msg(Agent2, 4)}

\* ratelimit::RateLimitConfig
RateLimitConfig(rps, burst, window) ==
    [requests_per_second |-> rps, burst_capacity |-> burst, window_secs |-> window]

\* RateLimitConfig::default()
DefaultRateLimitConfig == RateLimitConfig(100, 200, 60)
\* The configuration of test_rate_limiter.
TestRateLimitConfig == RateLimitConfig(10, 20, 1)
\* Small configurations, both with the window tighter than the bucket (2): in
\* the first a window entry expires after one second, in the second the window
\* error differs from the bucket error.
SmallRateLimitConfigs == {RateLimitConfig(1, 2, 1), RateLimitConfig(1, 2, 2)}

Keys == {"k1", "k2"}
AcquireCounts == {1, 2}
Ticks == {500, 1000}

Tasks == {"t1", "t2"}
Idle == [op |-> "idle"]

(***************************************************************************)
(* Partial maps (DashMap): a function whose DOMAIN is the set of keys.     *)
(***************************************************************************)
EmptyMap == [k \in {} |-> 0]
MapInsert(m, k, v) == [x \in (DOMAIN m) \cup {k} |-> IF x = k THEN v ELSE m[x]]
MapRemove(m, k) == [x \in (DOMAIN m) \ {k} |-> m[x]]

(***************************************************************************)
(* routing::Endpoint                                                       *)
(***************************************************************************)
\* Endpoint::new
EndpointNew(metrics) == [metrics |-> metrics, consecutive_failures |-> 0]

IsHealthyLoose(e) == e.metrics.health_status # "Unhealthy"

\* Endpoint::is_healthy
IsHealthy(e) == e.metrics.health_status = "Healthy"

\* Endpoint::load_percentage, times 100 (capacity 0 counts as fully loaded).
LoadPercentage100(e) ==
    IF e.metrics.capacity = 0 THEN 100
    ELSE (e.metrics.current_load * 100) \div e.metrics.capacity

\* CostAwareRouter::score_endpoint, times 10 (lower is better).
ScoreEndpoint(e) ==
    LET cost_score == e.metrics.cost_per_1k_tokens * CostWeight10
        load_score == LoadPercentage100(e) * LoadWeight10
        latency_score == e.metrics.latency_p99_ms * LatencyWeight10
    IN  cost_score + load_score + latency_score

\* CostAwareRouter::get_healthy_endpoints: the keys of the Healthy entries.
\* The code collects them in the DashMap's iteration order, which is the
\* order of hash shards and buckets under a per-map random hasher: any order.
HealthyKeys(eps) == {k \in DOMAIN eps : IsHealthy(eps[k])}

RECURSIVE Orders(_)
Orders(S) ==
    IF S = {} THEN {<<>>}
    ELSE UNION {{<<x>> \o rest : rest \in Orders(S \ {x})} : x \in S}

GetHealthyEndpoints(eps) == Orders(HealthyKeys(eps))

\* scored.sort_by(|a, b| a.1.partial_cmp(&b.1)...): slice::sort_by is a stable
\* sort; equal scores keep the order they had in the snapshot.
RECURSIVE InsertByScore(_, _, _)
InsertByScore(sorted, k, eps) ==
    IF sorted = <<>> THEN <<k>>
    ELSE IF ScoreEndpoint(eps[k]) < ScoreEndpoint(eps[Head(sorted)])
         THEN <<k>> \o sorted
         ELSE <<Head(sorted)>> \o InsertByScore(Tail(sorted), k, eps)

SortByScoreSkipped(snapshot, eps) == snapshot

RECURSIVE SortByScore(_, _)
SortByScore(snapshot, eps) ==
    IF snapshot = <<>> THEN <<>>
    ELSE InsertByScore(SortByScore(SubSeq(snapshot, 1, Len(snapshot) - 1), eps),
                       snapshot[Len(snapshot)], eps)

\* scored.iter().skip(1).take(2)
FallbackEndpoints(scored, eps) ==
    [i \in 1..(IF Len(scored) - 1 < 2 THEN Len(scored) - 1 ELSE 2) |->
        eps[scored[i + 1]].metrics.endpoint_id]

\* The RoutingDecision route builds from the sorted snapshot.
BuildDecision(message, scored, eps) ==
    LET best == eps[scored[1]]
    IN  [message_id |-> message.message_id,
         target_endpoint |-> best.metrics.endpoint_id,
         estimated_latency_ms |-> best.metrics.latency_p99_ms,
         estimated_cost |-> (best.metrics.cost_per_1k_tokens * message.estimated_cost_tokens) \div 1000,
         fallback_endpoints |-> FallbackEndpoints(scored, eps),
         total_score |-> ScoreEndpoint(best)]

\* CostAwareRouter::check_budget: the error it returns, if any.
BudgetExceeded(agent_id, required, available) ==
    [kind |-> "BudgetExceeded", agent_id |-> agent_id, required |-> required, available |-> available]

CheckBudgetFailsOnEqual(bs, agent_id, estimated_cost) ==
    /\ agent_id \in DOMAIN bs
    /\ bs[agent_id].remaining_tokens <= estimated_cost

CheckBudgetFails(bs, agent_id, estimated_cost) ==
    /\ agent_id \in DOMAIN bs
    /\ bs[agent_id].remaining_tokens < estimated_cost

\* record_decision without the drain
RecordDecisionKeepAll(history, decision) == Append(history, decision)

\* Successful routes are explored while the history is shorter than MaxHistory,
\* within MaxHistory of the cap, and for MaxHistory decisions after a drain.
HistoryExplored(history) ==
    \/ Len(history) < MaxHistory
    \/ Len(history) >= HistoryCap - MaxHistory
    \/ /\ Len(history) > HistoryCap - HistoryDrain
       /\ Len(history) <= HistoryCap - HistoryDrain + MaxHistory

\* CostAwareRouter::record_decision
RecordDecision(history, decision) ==
    LET pushed == Append(history, decision)
    IN  IF Len(pushed) > HistoryCap
        THEN SubSeq(pushed, HistoryDrain + 1, Len(pushed))
        ELSE pushed

(***************************************************************************)
(* ratelimit::TokenBucket                                                  *)
(***************************************************************************)
Min(a, b) == IF a < b THEN a ELSE b

\* TokenBucket::new
TokenBucketNew(capacity, refill_rate, t) ==
    [tokens |-> capacity, last_refill |-> t, capacity |-> capacity, refill_rate |-> refill_rate]

\* TokenBucket::refill
Refill(b, t) ==
    LET elapsed_ms == t - b.last_refill
        new_tokens == (elapsed_ms * b.refill_rate) \div 1000
    IN  IF elapsed_ms > 0 /\ new_tokens > 0
        THEN [b EXCEPT !.tokens = Min(b.tokens + new_tokens, b.capacity), !.last_refill = t]
        ELSE b

TokenBucketTryAcquireOffByOne(b, count, t) ==
    LET r == Refill(b, t)
    IN  IF r.tokens <= count
        THEN [ok |-> FALSE, bucket |-> r]
        ELSE [ok |-> TRUE, bucket |-> [r EXCEPT !.tokens = r.tokens - count]]

\* TokenBucket::try_acquire: whether it admits, and the bucket afterwards.
TokenBucketTryAcquire(b, count, t) ==
    LET r == Refill(b, t)
    IN  IF r.tokens < count
        THEN [ok |-> FALSE, bucket |-> r]
        ELSE [ok |-> TRUE, bucket |-> [r EXCEPT !.tokens = r.tokens - count]]

(***************************************************************************)
(* ratelimit::SlidingWindow                                                *)
(***************************************************************************)
\* SlidingWindow::new
SlidingWindowNew(window_secs, limit) ==
    [counts |-> <<>>, window_ms |-> window_secs * 1000, limit |-> limit]

\* counts.retain(|(time, _)| *time > cutoff)
RECURSIVE Retain(_, _)
Retain(counts, cutoff) ==
    IF counts = <<>> THEN <<>>
    ELSE IF Head(counts).time > cutoff
         THEN <<Head(counts)>> \o Retain(Tail(counts), cutoff)
         ELSE Retain(Tail(counts), cutoff)

\* counts.iter().map(|(_, c)| c).sum()
RECURSIVE Total(_)
Total(counts) == IF counts = <<>> THEN 0 ELSE Head(counts).count + Total(Tail(counts))

SlidingWindowTryAcquireNoSum(w, count, t) ==
    LET kept == Retain(w.counts, t - w.window_ms)
    IN  IF count <= w.limit
        THEN [ok |-> TRUE,
              window |-> [w EXCEPT !.counts = Append(kept, [time |-> t, count |-> count])]]
        ELSE [ok |-> FALSE, window |-> [w EXCEPT !.counts = kept]]

\* SlidingWindow::try_acquire: whether it admits, and the window afterwards.
SlidingWindowTryAcquire(w, count, t) ==
    LET kept == Retain(w.counts, t - w.window_ms)
    IN  IF Total(kept) + count <= w.limit
        THEN [ok |-> TRUE,
              window |-> [w EXCEPT !.counts = Append(kept, [time |-> t, count |-> count])]]
        ELSE [ok |-> FALSE, window |-> [w EXCEPT !.counts = kept]]

(***************************************************************************)
(* ratelimit::RateLimiter                                                  *)
(***************************************************************************)
\* RateLimiter::new: the global bucket
GlobalBucketNew(config, t) ==
    TokenBucketNew(config.burst_capacity * 10, config.requests_per_second * 10, t)

LimitExceeded(key, limit, window_secs) ==
    [kind |-> "LimitExceeded", key |-> key, limit |-> limit, window_secs |-> window_secs]

\* RateLimiter::acquire_n: the result and the three limiters afterwards.
AcquireOutcome(config, global, bs, ws, key, count, t) ==
    LET g == TokenBucketTryAcquire(global, count, t)
        bucket == IF key \in DOMAIN bs THEN bs[key]
                  ELSE TokenBucketNew(config.burst_capacity, config.requests_per_second, t)
        b == TokenBucketTryAcquire(bucket, count, t)
        window == IF key \in DOMAIN ws THEN ws[key]
                  ELSE SlidingWindowNew(config.window_secs,
                                        config.requests_per_second * config.window_secs)
        w == SlidingWindowTryAcquire(window, count, t)
    IN  IF ~g.ok
        THEN [res |-> LimitExceeded("global", config.requests_per_second * 10, 1),
              global |-> g.bucket, buckets |-> bs, windows |-> ws]
        ELSE IF ~b.ok
        THEN [res |-> LimitExceeded(key, config.requests_per_second, 1),
              global |-> g.bucket, buckets |-> MapInsert(bs, key, b.bucket), windows |-> ws]
        ELSE IF ~w.ok
        THEN [res |-> LimitExceeded(key, config.requests_per_second * config.window_secs,
                                    config.window_secs),
              global |-> g.bucket, buckets |-> MapInsert(bs, key, b.bucket),
              windows |-> MapInsert(ws, key, w.window)]
        ELSE [res |-> [kind |-> "Ok"],
              global |-> g.bucket, buckets |-> MapInsert(bs, key, b.bucket),
              windows |-> MapInsert(ws, key, w.window)]

(***************************************************************************)
(* protocol::AiMessage::validate, storage::StorageLayer (dedup cache),     *)
(* observability::ObservabilityLayer                                       *)
(***************************************************************************)
\* c.is_ascii_lowercase() || c.is_ascii_digit() || c == '_' || c == '-'
AgentIdChars ==
    {"a", "b", "c", "d", "e", "f", "g", "h", "i", "j", "k", "l", "m",
     "n", "o", "p", "q", "r", "s", "t", "u", "v", "w", "x", "y", "z",
     "0", "1", "2", "3", "4", "5", "6", "7", "8", "9", "_", "-"}

\* AiMessage::validate at wall-clock time now_ms: Ok or the first error.
Validate(message, now_ms) ==
    IF message.agent_id = <<>>
    THEN [kind |-> "InvalidAgentId"]
    ELSE IF \E i \in DOMAIN message.agent_id : message.agent_id[i] \notin AgentIdChars
    THEN [kind |-> "InvalidAgentId"]
    ELSE IF message.payload_len > MaxPayloadSize
    THEN [kind |-> "MessageTooLarge", size |-> message.payload_len, max |-> MaxPayloadSize]
    ELSE IF message.budget_tokens <= 0
    THEN [kind |-> "ValidationFailed"]
    ELSE IF message.deadline_ms > 0 /\ message.deadline_ms < now_ms
    THEN [kind |-> "DeadlineExpired", deadline_ms |-> message.deadline_ms,
          current_ms |-> now_ms]
    ELSE IF message.priority < 0 \/ message.priority > 100
    THEN [kind |-> "ValidationFailed"]
    ELSE [kind |-> "Ok"]

\* StorageConfig::default() (the field the model reads)
StorageConfigDefault == [dedup_ttl_secs |-> DedupTtlSecs]

\* compute_dedup_hash: a digest of the payload and the dedup context (the
\* model keeps the pair the digest is computed from).
ComputeDedupHash(message) == <<message.payload, message.dedup_context>>

\* StorageLayer::write_dedup at time now_s (seconds)
WriteDedup(cache, hash, result, now_s) ==
    MapInsert(cache, hash, [timestamp |-> now_s, result |-> result])

CheckDedupDisabled(cache, hash, now_s) == [hit |-> FALSE, cache |-> cache]

\* StorageLayer::check_dedup at time now_s: a fresh entry is a hit, an expired
\* entry is removed.
CheckDedup(cache, hash, now_s) ==
    IF hash \notin DOMAIN cache
    THEN [hit |-> FALSE, cache |-> cache]
    ELSE IF now_s - cache[hash].timestamp < storage_config.dedup_ttl_secs
    THEN [hit |-> TRUE, result |-> cache[hash].result, cache |-> cache]
    ELSE [hit |-> FALSE, cache |-> MapRemove(cache, hash)]

\* `tokens as u64`: the cast saturates, a negative amount becomes 0.
AsU64(x) == IF x < 0 THEN 0 ELSE x

\* ObservabilityLayer::new (the counters record_message maintains)
ObservabilityNew ==
    [messages_total |-> 0, messages_success |-> 0, messages_failed |-> 0,
     tokens_consumed |-> 0, agent_tokens |-> EmptyMap, agent_messages |-> EmptyMap]

\* ObservabilityLayer::record_message
RecordMessage(st, agent_id, success, tokens) ==
    LET agent_tokens == IF agent_id \in DOMAIN st.agent_tokens
                        THEN st.agent_tokens[agent_id] ELSE 0
        agent_messages == IF agent_id \in DOMAIN st.agent_messages
                          THEN st.agent_messages[agent_id] ELSE 0
    IN  [messages_total |-> st.messages_total + 1,
         messages_success |-> st.messages_success + (IF success THEN 1 ELSE 0),
         messages_failed |-> st.messages_failed + (IF success THEN 0 ELSE 1),
         tokens_consumed |-> st.tokens_consumed + AsU64(tokens),
         agent_tokens |-> MapInsert(st.agent_tokens, agent_id, agent_tokens + AsU64(tokens)),
         agent_messages |-> MapInsert(st.agent_messages, agent_id, agent_messages + 1)]

\* AcknowledgmentMessage::success
AckSuccess(original_message_id, tokens_used, result) ==
    [kind |-> "Ok", original_message_id |-> original_message_id,
     status |-> "AckProcessed", tokens_used |-> tokens_used, result |-> result]

\* AiMeshError: the error process_message returns, by the layer it comes from.
AiMeshError(layer, error) == [kind |-> "Err", layer |-> layer, error |-> error]

(***************************************************************************)
(* Router operations                                                       *)
(***************************************************************************)
Call(op, arg, res) == [op |-> op, arg |-> arg, res |-> res]
Other == [op |-> "other"]

GuardIgnored(agent_id) == TRUE

\* A DashMap entry of budgets can be read or written when no task holds its
\* write guard (RefMut); otherwise the caller blocks.
GuardFree(agent_id) == agent_id \notin DOMAIN guard

\* What route returns for a message, given the snapshot of Healthy endpoints:
\* 1. check_budget, 2. the snapshot is empty, 3.-5. score, sort, decide.
RouteOutcome(message, healthy, bs, eps) ==
    IF CheckBudgetFails(bs, message.agent_id, message.estimated_cost_tokens)
    THEN BudgetExceeded(message.agent_id, message.estimated_cost_tokens,
                        bs[message.agent_id].remaining_tokens)
    ELSE IF healthy = <<>>
    THEN [kind |-> "NoHealthyEndpoints"]
    ELSE [kind |-> "Ok",
          decision |-> BuildDecision(message, SortByScore(healthy, eps), eps)]

RouteTouchingLoad(message) ==
    /\ GuardFree(message.agent_id)
    /\ \E healthy \in GetHealthyEndpoints(endpoints) :
         LET res == RouteOutcome(message, healthy, budgets, endpoints)
         IN  /\ res.kind = "Ok"
             /\ HistoryExplored(routing_history)
             /\ endpoints' = [endpoints EXCEPT ![healthy[1]].metrics.current_load = @ + 1]
             /\ routing_history' = RecordDecision(routing_history, res.decision.message_id)
             /\ last' = Call("route", message, res)
    /\ UNCHANGED <<budgets, taskVars, accepted, outsideRouter>>

\* CostAwareRouter::route, what it does to the router.  The history keeps, of
\* each decision, its message_id.
RouteCall(message) ==
    /\ GuardFree(message.agent_id)
    /\ \E healthy \in GetHealthyEndpoints(endpoints) :
         LET res == RouteOutcome(message, healthy, budgets, endpoints)
         IN  /\ IF res.kind = "Ok"
                THEN /\ HistoryExplored(routing_history)
                     /\ routing_history' =
                            RecordDecision(routing_history, res.decision.message_id)
                ELSE UNCHANGED routing_history
             /\ last' = Call("route", message, res)
    /\ UNCHANGED <<endpoints, budgets>>

\* CostAwareRouter::route, called on its own.
Route(message) ==
    /\ RouteCall(message)
    /\ UNCHANGED <<taskVars, accepted, outsideRouter>>

\* CostAwareRouter::register_endpoint
RegisterEndpoint(metrics) ==
    /\ endpoints' = MapInsert(endpoints, metrics.endpoint_id, EndpointNew(metrics))
    /\ last' = Other
    /\ UNCHANGED <<budgets, routing_history, taskVars, accepted, outsideRouter>>

\* CostAwareRouter::update_endpoint_metrics
UpdateEndpointMetrics(endpoint_id, metrics) ==
    /\ IF endpoint_id \in DOMAIN endpoints
       THEN endpoints' = [endpoints EXCEPT ![endpoint_id].metrics = metrics]
       ELSE UNCHANGED endpoints    \* Err(EndpointNotFound)
    /\ last' = Other
    /\ UNCHANGED <<budgets, routing_history, taskVars, accepted, outsideRouter>>

\* The endpoint as a health call finds it (absent: not registered).
EndpointSeen(endpoint_id) ==
    IF endpoint_id \in DOMAIN endpoints
    THEN [endpoint_id |-> endpoint_id,
          health_status |-> endpoints[endpoint_id].metrics.health_status,
          consecutive_failures |-> endpoints[endpoint_id].consecutive_failures]
    ELSE [endpoint_id |-> endpoint_id, health_status |-> "absent",
          consecutive_failures |-> 0]

\* record_endpoint_failure that counts and never marks the endpoint
RecordEndpointFailureCountOnly(endpoint_id) ==
    /\ IF endpoint_id \in DOMAIN endpoints
       THEN /\ endpoints[endpoint_id].consecutive_failures < MaxFailures
            /\ endpoints' = [endpoints EXCEPT ![endpoint_id].consecutive_failures = @ + 1]
       ELSE UNCHANGED endpoints
    /\ last' = Call("record_endpoint_failure", EndpointSeen(endpoint_id), [kind |-> "Ok"])
    /\ UNCHANGED <<budgets, routing_history, taskVars, accepted, outsideRouter>>

\* CostAwareRouter::record_endpoint_failure
RecordEndpointFailure(endpoint_id) ==
    /\ IF endpoint_id \in DOMAIN endpoints
       THEN LET failures == endpoints[endpoint_id].consecutive_failures + 1
            IN  /\ failures <= MaxFailures
                /\ endpoints' =
                     [endpoints EXCEPT
                        ![endpoint_id].consecutive_failures = failures,
                        ![endpoint_id].metrics.health_status =
                            IF failures >= UnhealthyThreshold THEN "Unhealthy" ELSE @]
       ELSE UNCHANGED endpoints
    /\ last' = Call("record_endpoint_failure", EndpointSeen(endpoint_id), [kind |-> "Ok"])
    /\ UNCHANGED <<budgets, routing_history, taskVars, accepted, outsideRouter>>

\* CostAwareRouter::record_endpoint_success
RecordEndpointSuccess(endpoint_id) ==
    /\ IF endpoint_id \in DOMAIN endpoints
       THEN endpoints' =
              [endpoints EXCEPT
                 ![endpoint_id].consecutive_failures = 0,
                 ![endpoint_id].metrics.health_status = "Healthy"]
       ELSE UNCHANGED endpoints
    /\ last' = Call("record_endpoint_success", EndpointSeen(endpoint_id), [kind |-> "Ok"])
    /\ UNCHANGED <<budgets, routing_history, taskVars, accepted, outsideRouter>>

\* CostAwareRouter::remove_endpoint
RemoveEndpoint(endpoint_id) ==
    /\ endpoints' = MapRemove(endpoints, endpoint_id)
    /\ last' = Other
    /\ UNCHANGED <<budgets, routing_history, taskVars, accepted, outsideRouter>>

\* CostAwareRouter::set_budget
SetBudget(agent_id, initial_tokens) ==
    /\ GuardFree(agent_id)
    /\ budgets' = MapInsert(budgets, agent_id,
                            [initial_tokens |-> initial_tokens,
                             remaining_tokens |-> initial_tokens])
    /\ accepted' = [accepted EXCEPT ![agent_id] = 0]
    /\ last' = Other
    /\ UNCHANGED <<endpoints, routing_history, taskVars, outsideRouter>>

\* CostAwareRouter::reset_budget
ResetBudget(agent_id) ==
    /\ GuardFree(agent_id)
    /\ IF agent_id \in DOMAIN budgets
       THEN budgets' = [budgets EXCEPT
                          ![agent_id].remaining_tokens = budgets[agent_id].initial_tokens]
       ELSE UNCHANGED budgets
    /\ accepted' = [accepted EXCEPT ![agent_id] = 0]
    /\ last' = Other
    /\ UNCHANGED <<endpoints, routing_history, taskVars, outsideRouter>>

(***************************************************************************)
(* CostAwareRouter::consume_budget, run by concurrent tasks.  get_mut      *)
(* takes the entry's write guard, which is held until the call returns.    *)
(***************************************************************************)
ConsumeBudgetCall(t, agent_id, tokens) ==
    /\ frame[t] = Idle
    /\ agent_id \in DOMAIN budgets => budgets[agent_id].remaining_tokens - tokens <= MaxRemaining
    /\ frame' = [frame EXCEPT ![t] = [op |-> "consume_budget", pc |-> "get_mut",
                                      agent_id |-> agent_id, tokens |-> tokens]]
    /\ UNCHANGED <<routerVars, last, guard, ret, accepted, outsideRouter>>

\* if let Some(mut budget) = self.budgets.get_mut(agent_id) ... else Ok(f64::MAX)
ConsumeBudgetGetMut(t) ==
    /\ frame[t].op = "consume_budget" /\ frame[t].pc = "get_mut"
    /\ LET agent_id == frame[t].agent_id
       IN  IF agent_id \in DOMAIN budgets
           THEN /\ GuardFree(agent_id)
                /\ guard' = MapInsert(guard, agent_id, t)
                /\ frame' = [frame EXCEPT ![t].pc = "check"]
                /\ UNCHANGED ret
           ELSE /\ ret' = [ret EXCEPT ![t] = [kind |-> "Ok", remaining |-> F64Max]]
                /\ frame' = [frame EXCEPT ![t] = Idle]
                /\ UNCHANGED guard
    /\ UNCHANGED <<routerVars, last, accepted, outsideRouter>>

\* if budget.remaining_tokens < tokens { return Err(BudgetExceeded) }
ConsumeBudgetCheck(t) ==
    /\ frame[t].op = "consume_budget" /\ frame[t].pc = "check"
    /\ LET agent_id == frame[t].agent_id
           tokens == frame[t].tokens
       IN  IF budgets[agent_id].remaining_tokens < tokens
           THEN /\ ret' = [ret EXCEPT ![t] =
                            BudgetExceeded(agent_id, tokens, budgets[agent_id].remaining_tokens)]
                /\ guard' = MapRemove(guard, agent_id)
                /\ frame' = [frame EXCEPT ![t] = Idle]
           ELSE /\ frame' = [frame EXCEPT ![t].pc = "sub"]
                /\ UNCHANGED <<guard, ret>>
    /\ UNCHANGED <<routerVars, last, accepted, outsideRouter>>

\* budget.remaining_tokens -= tokens; Ok(budget.remaining_tokens)
ConsumeBudgetSub(t) ==
    /\ frame[t].op = "consume_budget" /\ frame[t].pc = "sub"
    /\ LET agent_id == frame[t].agent_id
           tokens == frame[t].tokens
           remaining == budgets[agent_id].remaining_tokens - tokens
       IN  /\ budgets' = [budgets EXCEPT ![agent_id].remaining_tokens = remaining]
           /\ ret' = [ret EXCEPT ![t] = [kind |-> "Ok", remaining |-> remaining]]
           /\ accepted' = [accepted EXCEPT ![agent_id] = @ + tokens]
           /\ guard' = MapRemove(guard, agent_id)
           /\ frame' = [frame EXCEPT ![t] = Idle]
    /\ UNCHANGED <<endpoints, routing_history, last, outsideRouter>>

(***************************************************************************)
(* Spec: the router on its own (endpoint registry, budget book, route).    *)
(***************************************************************************)
\* The components as their constructors leave them: CostAwareRouter::new,
\* RateLimiter::new(rate_limit), StorageLayer::new(storage), ObservabilityLayer::new,
\* and SemanticDeduplicator::new(dedup.ttl_secs), with_storage(..) when dedup.storage.
SystemWithHistory(history, rate_limit, storage, dedup, queue) ==
    /\ endpoints = EmptyMap
    /\ budgets = EmptyMap
    /\ routing_history = history
    /\ last = [op |-> "none"]
    /\ frame = [t \in Tasks |-> Idle]
    /\ guard = EmptyMap
    /\ ret = [t \in Tasks |-> [kind |-> "none"]]
    /\ accepted = [a \in Agents |-> 0]
    /\ now = 0
    /\ rl_config = rate_limit
    /\ global_bucket = GlobalBucketNew(rl_config, now)
    /\ buckets = EmptyMap
    /\ windows = EmptyMap
    /\ dedup_cache = EmptyMap
    /\ message_cache = {}
    /\ stats = ObservabilityNew
    /\ storage_config = storage
    /\ dd_config = dedup
    /\ dd_cache = EmptyMap
    /\ dd_done = EmptyMap
    /\ dd_last = EmptyMap
    /\ tenants = EmptyMap
    /\ usage = EmptyMap
    /\ agent_tenants = EmptyMap
    /\ pq_config = queue
    /\ pq_heap = <<>>
    /\ pq_notify = 0
    /\ tb = TokenBucketNew(rate_limit.burst_capacity, rate_limit.requests_per_second, 0)
    /\ tb_lock = "free"
    /\ tb_admitted = 0
    /\ tb_refilled = 0
    /\ orch_tasks = EmptyMap

\* The system as constructed: no decision taken yet.
SystemNew(rate_limit, storage, dedup, queue) ==
    SystemWithHistory(<<>>, rate_limit, storage, dedup, queue)

\* PriorityQueueConfig (deadline_aware is read by no operation)
PriorityQueueConfig(max_size, drop_expired) ==
    [max_size |-> max_size, deadline_aware |-> TRUE, drop_expired |-> drop_expired]

\* impl Default for PriorityQueueConfig
PriorityQueueConfigDefault == PriorityQueueConfig(100000, TRUE)

\* SemanticDeduplicator::new(ttl_secs), followed by with_storage(..) or not
DedupConfig(ttl_secs, storage) == [ttl_secs |-> ttl_secs, storage |-> storage]

\* AiMesh::new(config): config.storage at its default; the mesh builds no
\* SemanticDeduplicator, the one of the model is left at ttl 3600, no storage.
AiMeshNew(rate_limit) ==
    SystemNew(rate_limit, StorageConfigDefault, DedupConfig(DedupTtlSecs, FALSE),
              PriorityQueueConfigDefault)

Init == AiMeshNew(DefaultRateLimitConfig)

Next ==
    \/ \E m \in Messages : Route(m)
    \/ \E metrics \in MetricsInputs : RegisterEndpoint(metrics)
    \/ \E metrics \in MetricsInputs : UpdateEndpointMetrics(metrics.endpoint_id, metrics)
    \/ \E id \in EndpointIds : RemoveEndpoint(id)
    \/ \E n \in BudgetAmounts : SetBudget(Agent1, n)

Spec == Init /\ [][Next]_vars

(***************************************************************************)
(* SpecBudget: the budget book under concurrent consume_budget calls.      *)
(***************************************************************************)
NextBudget ==
    \/ \E n \in BudgetAmounts : SetBudget(Agent1, n)
    \/ \E a \in Agents : ResetBudget(a)
    \/ \E t \in Tasks, a \in Agents, k \in ConsumeAmounts : ConsumeBudgetCall(t, a, k)
    \/ \E t \in Tasks : ConsumeBudgetGetMut(t)
    \/ \E t \in Tasks : ConsumeBudgetCheck(t)
    \/ \E t \in Tasks : ConsumeBudgetSub(t)

SpecBudget == Init /\ [][NextBudget]_vars

(***************************************************************************)
(* SpecHealth: the health bookkeeping of the router.  Two endpoints are    *)
(* registered, re-registered and updated with every health status, fail    *)
(* and succeed, and a request is routed in between.                        *)
(***************************************************************************)
HealthMetricsInputs ==
    {Metrics("e1", PA, h) : h \in HealthStatuses} \cup {Metrics("e2", PB, "Healthy")}

HealthEndpointIds == {"e1", "e2"}

NextHealth ==
    \/ \E metrics \in HealthMetricsInputs : RegisterEndpoint(metrics)
    \/ \E metrics \in HealthMetricsInputs :
           UpdateEndpointMetrics(metrics.endpoint_id, metrics)
    \/ \E id \in HealthEndpointIds : RecordEndpointFailure(id)
    \/ \E id \in HealthEndpointIds : RecordEndpointSuccess(id)
    \/ Route(Msg(Agent1, 2))

SpecHealth == Init /\ [][NextHealth]_vars

(***************************************************************************)
(* SpecHistory: the routing history at its cap.  The router has taken      *)
(* HistoryCap - 1 decisions before (PastDecision(i) is the message id of   *)
(* the i-th); requests are routed with and without success from there.     *)
(***************************************************************************)
PastDecision(i) == <<Agent2, i>>

InitHistory ==
    SystemWithHistory([i \in 1..(HistoryCap - 1) |-> PastDecision(i)],
                      DefaultRateLimitConfig, StorageConfigDefault,
                      DedupConfig(DedupTtlSecs, FALSE), PriorityQueueConfigDefault)

NextHistory ==
    \/ RegisterEndpoint(Metrics("e1", PA, "Healthy"))
    \/ \E n \in BudgetAmounts : SetBudget(Agent1, n)
    \/ \E m \in Messages : Route(m)

SpecHistory == InitHistory /\ [][NextHistory]_vars

(***************************************************************************)
(* SpecLimiter: the rate limiter on its own, under small configurations;   *)
(* SpecLimiterTest: one key under the configuration of test_rate_limiter.  *)
(***************************************************************************)
\* RateLimiter::acquire_n (acquire(key) is acquire_n(key, 1))
AcquireN(key, count) ==
    LET out == AcquireOutcome(rl_config, global_bucket, buckets, windows, key, count, now)
    IN  /\ global_bucket' = out.global
        /\ buckets' = out.buckets
        /\ windows' = out.windows
        /\ last' = Call("acquire_n", [key |-> key, count |-> count], out.res)
        /\ UNCHANGED <<rl_config, outsideLimiter>>

\* Time passes.
Tick(dt) ==
    /\ now + dt <= MaxTime
    /\ now' = now + dt
    /\ last' = Other
    /\ UNCHANGED <<routerVars, taskVars, accepted, limiterVars, meshVars, outsideMesh>>

InitLimiter == \E config \in SmallRateLimitConfigs : AiMeshNew(config)

NextLimiter ==
    \/ \E key \in Keys, count \in AcquireCounts : AcquireN(key, count)
    \/ \E dt \in Ticks : Tick(dt)

SpecLimiter == InitLimiter /\ [][NextLimiter]_vars

InitLimiterTest == AiMeshNew(TestRateLimitConfig)

NextLimiterTest ==
    \/ AcquireN("k1", 1)
    \/ \E dt \in Ticks : Tick(dt)

SpecLimiterTest == InitLimiterTest /\ [][NextLimiterTest]_vars

(***************************************************************************)
(* SpecPipeline: AiMesh::process_message, run by task "t1" one step per    *)
(* shared-state access, next to set_budget, reset_budget and write_dedup   *)
(* calls and consume_budget calls of task "t2".  No time passes.           *)
(***************************************************************************)
\* The rate limit configuration the pipeline is built with: the key's bucket
\* refuses the third request.
PipelineRateLimitConfig == RateLimitConfig(1, 2, 2)

\* The requests: two that validate accepts (one with a negative
\* estimated_cost_tokens, each with its own dedup context) and one it rejects.
PipelineMessages ==
    {Msg(Agent1, 2),
     [Msg(Agent1, -2) EXCEPT !.dedup_context = "c2"],
     [Msg(<<"A">>, 2) EXCEPT !.dedup_context = "c3"]}

\* The amounts handed to consume_budget directly.
PipelineConsumeAmounts == {-1, 2}

\* consume_budget that checks and does not subtract
ConsumeBudgetOutcomeNoDebit(bs, agent_id, tokens) ==
    IF agent_id \notin DOMAIN bs
    THEN [res |-> [kind |-> "Ok", remaining |-> F64Max], budgets |-> bs]
    ELSE IF bs[agent_id].remaining_tokens < tokens
    THEN [res |-> BudgetExceeded(agent_id, tokens, bs[agent_id].remaining_tokens),
          budgets |-> bs]
    ELSE [res |-> [kind |-> "Ok", remaining |-> bs[agent_id].remaining_tokens],
          budgets |-> bs]

\* consume_budget as one step (the entry's write guard is held throughout).
ConsumeBudgetOutcome(bs, agent_id, tokens) ==
    IF agent_id \notin DOMAIN bs
    THEN [res |-> [kind |-> "Ok", remaining |-> F64Max], budgets |-> bs]
    ELSE IF bs[agent_id].remaining_tokens < tokens
    THEN [res |-> BudgetExceeded(agent_id, tokens, bs[agent_id].remaining_tokens),
          budgets |-> bs]
    ELSE [res |-> [kind |-> "Ok", remaining |-> bs[agent_id].remaining_tokens - tokens],
          budgets |-> [bs EXCEPT ![agent_id].remaining_tokens = @ - tokens]]

Returns(t, value) == ret' = [ret EXCEPT ![t] = value]
Goto(t, pc) == frame' = [frame EXCEPT ![t].pc = pc]
Done(t) == frame' = [frame EXCEPT ![t] = Idle]
At(t, pc) == frame[t].op = "process_message" /\ frame[t].pc = pc

ProcessMessageBeginAcquireFirst(t, message) ==
    /\ frame[t] = Idle
    /\ global_bucket.capacity - global_bucket.tokens < MaxCalls
    /\ LET v == Validate(message, now)
           out == AcquireOutcome(rl_config, global_bucket, buckets, windows,
                                 message.agent_id, 1, now)
       IN  /\ global_bucket' = out.global
           /\ buckets' = out.buckets
           /\ windows' = out.windows
           /\ last' = Call("acquire_n", [key |-> message.agent_id, count |-> 1], out.res)
           /\ IF out.res.kind # "Ok"
              THEN Returns(t, AiMeshError("RateLimit", out.res)) /\ UNCHANGED frame
              ELSE IF v.kind # "Ok"
              THEN Returns(t, AiMeshError("Protocol", v)) /\ UNCHANGED frame
              ELSE /\ frame' = [frame EXCEPT ![t] =
                                  [op |-> "process_message", pc |-> "check_dedup",
                                   message |-> message, persisted |-> FALSE,
                                   recorded |-> FALSE]]
                   /\ UNCHANGED ret
           /\ UNCHANGED rl_config
    /\ UNCHANGED <<routerVars, guard, accepted, now, meshVars, outsideMesh>>

\* 1. message.validate()?  2. rate_limiter.acquire(&message.agent_id)?
ProcessMessageBegin(t, message) ==
    /\ frame[t] = Idle
    /\ global_bucket.capacity - global_bucket.tokens < MaxCalls
    /\ LET v == Validate(message, now)
           out == AcquireOutcome(rl_config, global_bucket, buckets, windows,
                                 message.agent_id, 1, now)
       IN  IF v.kind # "Ok"
           THEN /\ Returns(t, AiMeshError("Protocol", v))
                /\ UNCHANGED <<frame, last, limiterVars>>
           ELSE /\ global_bucket' = out.global
                /\ buckets' = out.buckets
                /\ windows' = out.windows
                /\ last' = Call("acquire_n", [key |-> message.agent_id, count |-> 1], out.res)
                /\ IF out.res.kind = "Ok"
                   THEN /\ frame' = [frame EXCEPT ![t] =
                                       [op |-> "process_message", pc |-> "check_dedup",
                                        message |-> message, persisted |-> FALSE,
                                        recorded |-> FALSE]]
                        /\ UNCHANGED ret
                   ELSE /\ Returns(t, AiMeshError("RateLimit", out.res))
                        /\ UNCHANGED frame
                /\ UNCHANGED rl_config
    /\ UNCHANGED <<routerVars, guard, accepted, now, meshVars, outsideMesh>>

\* 2. storage.check_dedup(&hash): a hit is acknowledged with no tokens used.
ProcessMessageCheckDedup(t) ==
    /\ At(t, "check_dedup")
    /\ LET message == frame[t].message
           c == CheckDedup(dedup_cache, ComputeDedupHash(message), now \div 1000)
       IN  /\ dedup_cache' = c.cache
           /\ IF c.hit
              THEN /\ Returns(t, AckSuccess(message.message_id, 0, c.result))
                   /\ Done(t)
              ELSE /\ Goto(t, "route")
                   /\ UNCHANGED ret
    /\ UNCHANGED <<routerVars, last, guard, accepted, now, limiterVars, message_cache, stats,
                   outsideMesh>>

\* 3. let decision = self.router.route(&message).await?
ProcessMessageRoute(t) ==
    /\ At(t, "route")
    /\ RouteCall(frame[t].message)
    /\ IF last'.res.kind = "Ok"
       THEN /\ frame' = [frame EXCEPT ![t] =
                           [op |-> "process_message", pc |-> "write_message",
                            message |-> frame[t].message, persisted |-> FALSE,
                            recorded |-> FALSE, decision |-> last'.res.decision]]
            /\ UNCHANGED ret
       ELSE /\ Returns(t, AiMeshError("Routing", last'.res))
            /\ Done(t)
    /\ UNCHANGED <<guard, accepted, outsideRouter>>

\* 4. self.storage.write_message(&message).await?  The message is cached, then
\* sent to the database, which answers or fails.  frame[t].persisted and
\* frame[t].recorded tell whether this call has written the message and its
\* dedup entry.
ProcessMessageWriteMessage(t) ==
    /\ At(t, "write_message")
    /\ message_cache' = message_cache \cup {frame[t].message.message_id}
    /\ \E stored \in BOOLEAN :
         IF stored
         THEN /\ frame' = [frame EXCEPT ![t].pc = "write_dedup", ![t].persisted = TRUE]
              /\ UNCHANGED ret
         ELSE /\ Returns(t, AiMeshError("Storage", [kind |-> "BarqDbError"]))
              /\ Done(t)
    /\ UNCHANGED <<routerVars, last, guard, accepted, now, limiterVars, dedup_cache, stats,
                   outsideMesh>>

\* 6. self.storage.write_dedup(&hash, result.clone()), the result being empty
ProcessMessageWriteDedup(t) ==
    /\ At(t, "write_dedup")
    /\ dedup_cache' = WriteDedup(dedup_cache, ComputeDedupHash(frame[t].message),
                                 <<>>, now \div 1000)
    /\ frame' = [frame EXCEPT ![t].pc = "consume_budget", ![t].recorded = TRUE]
    /\ UNCHANGED <<routerVars, last, guard, ret, accepted, now, limiterVars,
                   message_cache, stats, outsideMesh>>

\* 7. self.router.consume_budget(&message.agent_id, decision.estimated_cost)?
ProcessMessageConsumeBudget(t) ==
    /\ At(t, "consume_budget")
    /\ LET agent_id == frame[t].message.agent_id
           tokens == frame[t].decision.estimated_cost
           out == ConsumeBudgetOutcome(budgets, agent_id, tokens)
       IN  /\ GuardFree(agent_id)
           /\ agent_id \in DOMAIN budgets =>
                  budgets[agent_id].remaining_tokens - tokens <= MaxRemaining
           /\ budgets' = out.budgets
           /\ IF out.res.kind = "Ok"
              THEN /\ accepted' = IF agent_id \in DOMAIN budgets
                                  THEN [accepted EXCEPT ![agent_id] = @ + tokens]
                                  ELSE accepted
                   /\ Goto(t, "record_message")
                   /\ UNCHANGED ret
              ELSE /\ Returns(t, AiMeshError("Routing", out.res))
                   /\ Done(t)
                   /\ UNCHANGED accepted
    /\ UNCHANGED <<endpoints, routing_history, last, guard, outsideRouter>>

\* 8. observability.record_message(..); Ok(AcknowledgmentMessage::success(..))
ProcessMessageRecord(t) ==
    /\ At(t, "record_message")
    /\ LET message == frame[t].message
           tokens == frame[t].decision.estimated_cost
       IN  /\ stats' = RecordMessage(stats, message.agent_id, TRUE, tokens)
           /\ Returns(t, AckSuccess(message.message_id, tokens, <<>>))
    /\ Done(t)
    /\ UNCHANGED <<routerVars, last, guard, accepted, now, limiterVars,
                   dedup_cache, message_cache, outsideMesh>>

\* mesh.storage.write_dedup(&hash, result) called directly, as the tests do, for
\* the fingerprint of a request.
StorageWriteDedup(message, result) ==
    /\ dedup_cache' = WriteDedup(dedup_cache, ComputeDedupHash(message), result, now \div 1000)
    /\ UNCHANGED <<routerVars, taskVars, last, accepted, now, limiterVars, message_cache,
                   stats, outsideMesh>>

\* The bytes the tests cache
CachedBytes == <<"R">>

InitPipeline == AiMeshNew(PipelineRateLimitConfig)

NextPipeline ==
    \/ RegisterEndpoint(Metrics("e1", PA, "Healthy"))
    \/ \E n \in BudgetAmounts : SetBudget(Agent1, n)
    \/ ResetBudget(Agent1)
    \/ StorageWriteDedup(Msg(Agent1, 2), CachedBytes)
    \/ \E k \in PipelineConsumeAmounts : ConsumeBudgetCall("t2", Agent1, k)
    \/ ConsumeBudgetGetMut("t2")
    \/ ConsumeBudgetCheck("t2")
    \/ ConsumeBudgetSub("t2")
    \/ \E m \in PipelineMessages : ProcessMessageBegin("t1", m)
    \/ ProcessMessageCheckDedup("t1")
    \/ ProcessMessageRoute("t1")
    \/ ProcessMessageWriteMessage("t1")
    \/ ProcessMessageWriteDedup("t1")
    \/ ProcessMessageConsumeBudget("t1")
    \/ ProcessMessageRecord("t1")

SpecPipeline == InitPipeline /\ [][NextPipeline]_vars

(***************************************************************************)
(* SpecCharge: what process_message charges.  The endpoint is registered   *)
(* at two prices (PA: 1000 per 1k tokens, PD: 2000), the agent's budget is *)
(* set below and above the dearer cost, and task "t2" consumes from the    *)
(* same budget while task "t1" processes the request.                      *)
(***************************************************************************)
ChargeBudgets == {2, 4}
ChargeMessage == Msg(Agent1, 2)

NextCharge ==
    \/ \E p \in {PA, PD} : RegisterEndpoint(Metrics("e1", p, "Healthy"))
    \/ \E n \in ChargeBudgets : SetBudget(Agent1, n)
    \/ ConsumeBudgetCall("t2", Agent1, 1)
    \/ ConsumeBudgetGetMut("t2")
    \/ ConsumeBudgetCheck("t2")
    \/ ConsumeBudgetSub("t2")
    \/ ProcessMessageBegin("t1", ChargeMessage)
    \/ ProcessMessageCheckDedup("t1")
    \/ ProcessMessageRoute("t1")
    \/ ProcessMessageWriteMessage("t1")
    \/ ProcessMessageWriteDedup("t1")
    \/ ProcessMessageConsumeBudget("t1")
    \/ ProcessMessageRecord("t1")

SpecCharge == InitPipeline /\ [][NextCharge]_vars

(***************************************************************************)
(* SpecDedup: dedup::SemanticDeduplicator.  Task "t1" checks and task "t2" *)
(* records, one step per access to the in-memory map or to the storage     *)
(* layer, while the seconds pass.  dd_done[h][r] is the second at which    *)
(* the latest record(h, r) completed (-1: never), dd_last[h] the result of *)
(* the record of h that completed last.                                    *)
(***************************************************************************)
DedupResults == {"r1", "r2"}

\* Two requests that differ in everything but payload and dedup_context.
DedupMessages ==
    {[Msg(Agent1, 2) EXCEPT !.payload = <<"a", "b">>, !.payload_len = 2,
                            !.dedup_context = <<"c">>],
     [Msg(Agent2, 4) EXCEPT !.payload = <<"a", "b">>, !.payload_len = 2,
                            !.dedup_context = <<"c">>, !.priority = 90,
                            !.deadline_ms = 0]}

ComputeHashWithAgent(message) ==
    message.agent_id \o message.payload \o message.dedup_context

\* SemanticDeduplicator::compute_hash: the digest of the payload bytes followed
\* by the dedup_context bytes (the model keeps the digested byte string).
ComputeHash(message) == message.payload \o message.dedup_context

\* SemanticDeduplicator::now_secs
NowSecs == now \div 1000

\* now - *timestamp < self.ttl_secs
DedupLive(entry, now_s) == now_s - entry.timestamp < dd_config.ttl_secs

RecordInProgress(hash) ==
    \E u \in Tasks : frame[u].op = "record" /\ frame[u].hash = hash

\* What a check of the hash that starts now is due: the result of the record
\* that completed last and the second at which its TTL ends; "any" when there
\* is no such record, it is out of TTL, or a record is under way.
Expected(hash, now_s) ==
    IF /\ ~RecordInProgress(hash)
       /\ hash \in DOMAIN dd_last
       /\ now_s - dd_done[hash][dd_last[hash]] < dd_config.ttl_secs
    THEN [result |-> dd_last[hash],
          until |-> dd_done[hash][dd_last[hash]] + dd_config.ttl_secs]
    ELSE [result |-> "any", until |-> 0]

Some(value) == [some |-> TRUE, value |-> value]
None == [some |-> FALSE, value |-> "none"]

\* check_duplicate returns `option` to task t, whose call is described by f.
CheckReturns(t, f, option) ==
    /\ ret' = [ret EXCEPT ![t] =
                 [kind |-> "check_duplicate", message |-> f.message, hash |-> f.hash,
                  expect |-> f.expect, some |-> option.some, value |-> option.value,
                  at |-> NowSecs]]
    /\ frame' = [frame EXCEPT ![t] = Idle]

\* After the in-memory map: `if let Some(ref storage) = self.storage`, else None.
CheckAfterCache(t, f) ==
    IF dd_config.storage
    THEN /\ frame' = [frame EXCEPT ![t] = [f EXCEPT !.pc = "storage"]]
         /\ UNCHANGED ret
    ELSE CheckReturns(t, f, None)

AtCheck(t, pc) == frame[t].op = "check_duplicate" /\ frame[t].pc = pc

\* check_duplicate: compute_hash, now_secs, self.cache.get(&hash).
CheckDuplicateGet(t, message) ==
    /\ frame[t] = Idle
    /\ LET hash == ComputeHash(message)
           f == [op |-> "check_duplicate", pc |-> "get", message |-> message,
                 hash |-> hash, now |-> NowSecs, expect |-> Expected(hash, NowSecs)]
       IN  IF hash \in DOMAIN dd_cache
           THEN IF DedupLive(dd_cache[hash], f.now)
                THEN CheckReturns(t, f, Some(dd_cache[hash].result))
                ELSE /\ frame' = [frame EXCEPT ![t] = [f EXCEPT !.pc = "remove"]]
                     /\ UNCHANGED ret
           ELSE CheckAfterCache(t, f)
    /\ UNCHANGED <<outsideDedup, now, dedup_cache, dd_cache, dd_done, dd_last>>

\* The entry read was expired: drop(entry); self.cache.remove(&hash).
CheckDuplicateRemove(t) ==
    /\ AtCheck(t, "remove")
    /\ dd_cache' = MapRemove(dd_cache, frame[t].hash)
    /\ CheckAfterCache(t, frame[t])
    /\ UNCHANGED <<outsideDedup, now, dedup_cache, dd_done, dd_last>>

\* storage.check_dedup(&hash), which reads its own clock.
CheckDuplicateStorage(t) ==
    /\ AtCheck(t, "storage")
    /\ LET c == CheckDedup(dedup_cache, frame[t].hash, NowSecs)
       IN  /\ dedup_cache' = c.cache
           /\ IF c.hit
              THEN /\ frame' = [frame EXCEPT ![t] =
                                  [op |-> "check_duplicate", pc |-> "promote",
                                   message |-> frame[t].message, hash |-> frame[t].hash,
                                   now |-> frame[t].now, expect |-> frame[t].expect,
                                   found |-> c.result]]
                   /\ UNCHANGED ret
              ELSE CheckReturns(t, frame[t], None)
    /\ UNCHANGED <<outsideDedup, now, dd_cache, dd_done, dd_last>>

\* self.cache.insert(hash, (now, result.clone())); return Some(result)
CheckDuplicatePromote(t) ==
    /\ AtCheck(t, "promote")
    /\ dd_cache' = MapInsert(dd_cache, frame[t].hash,
                             [timestamp |-> frame[t].now, result |-> frame[t].found])
    /\ CheckReturns(t, frame[t], Some(frame[t].found))
    /\ UNCHANGED <<outsideDedup, now, dedup_cache, dd_done, dd_last>>

\* record(hash, result) of task t completes now.
RecordCompletes(t, message, hash, result) ==
    /\ ret' = [ret EXCEPT ![t] = [kind |-> "record", message |-> message,
                                  result |-> result]]
    /\ dd_done' = MapInsert(dd_done, hash,
                            [r \in DedupResults |->
                               IF r = result THEN NowSecs
                               ELSE IF hash \in DOMAIN dd_done THEN dd_done[hash][r]
                               ELSE -1])
    /\ dd_last' = MapInsert(dd_last, hash, result)

\* record: now_secs, self.cache.insert(hash.clone(), (now, result.clone())).
\* A check of the same hash that is under way is no longer due a result.
RecordInsert(t, message, result) ==
    /\ frame[t] = Idle
    /\ LET hash == ComputeHash(message)
           others == [u \in Tasks |->
                        IF frame[u].op = "check_duplicate" /\ frame[u].hash = hash
                        THEN [frame[u] EXCEPT !.expect = [result |-> "any", until |-> 0]]
                        ELSE frame[u]]
       IN  /\ dd_cache' = MapInsert(dd_cache, hash,
                                    [timestamp |-> NowSecs, result |-> result])
           /\ IF dd_config.storage
              THEN /\ frame' = [others EXCEPT ![t] =
                                  [op |-> "record", pc |-> "write_dedup",
                                   message |-> message, hash |-> hash,
                                   result |-> result]]
                   /\ UNCHANGED <<ret, dd_done, dd_last>>
              ELSE /\ frame' = others
                   /\ RecordCompletes(t, message, hash, result)
    /\ UNCHANGED <<outsideDedup, now, dedup_cache>>

\* storage.write_dedup(hash, result), which reads its own clock.
RecordWriteDedup(t) ==
    /\ frame[t].op = "record"
    /\ frame[t].pc = "write_dedup"
    /\ dedup_cache' = WriteDedup(dedup_cache, frame[t].hash, frame[t].result, NowSecs)
    /\ RecordCompletes(t, frame[t].message, frame[t].hash, frame[t].result)
    /\ frame' = [frame EXCEPT ![t] = Idle]
    /\ UNCHANGED <<outsideDedup, now, dd_cache>>

\* cleanup: self.cache.retain(|_, (timestamp, _)| now - *timestamp < self.ttl_secs)
Cleanup ==
    /\ dd_cache' = [h \in {k \in DOMAIN dd_cache : DedupLive(dd_cache[k], NowSecs)} |->
                      dd_cache[h]]
    /\ UNCHANGED <<outsideDedup, taskVars, now, dedup_cache, dd_done, dd_last>>

\* A second passes.  A check takes less than a second (the claims speak of the
\* time of a check); a record may still be under way.
TickSecond ==
    /\ NowSecs < MaxDedupTime
    /\ \A u \in Tasks : frame[u].op # "check_duplicate"
    /\ now' = now + 1000
    /\ UNCHANGED <<routerVars, taskVars, last, accepted, limiterVars, meshVars, outsideMesh>>

InitDedup ==
    \E storage \in BOOLEAN :
        SystemNew(DefaultRateLimitConfig, [dedup_ttl_secs |-> DedupTtl],
                  DedupConfig(DedupTtl, storage), PriorityQueueConfigDefault)

NextDedup ==
    \/ \E message \in DedupMessages : CheckDuplicateGet("t1", message)
    \/ CheckDuplicateRemove("t1")
    \/ CheckDuplicateStorage("t1")
    \/ CheckDuplicatePromote("t1")
    \/ \E message \in DedupMessages, result \in DedupResults :
           RecordInsert("t2", message, result)
    \/ RecordWriteDedup("t2")
    \/ Cleanup
    \/ TickSecond

SpecDedup == InitDedup /\ [][NextDedup]_vars

(***************************************************************************)
(* tenant::TenantManager, and SpecTenant: the tenant operations next to    *)
(* process_message calls of an agent that may be registered to a tenant.   *)
(***************************************************************************)
TenantTiers == {"Free", "Starter", "Professional", "Enterprise"}

\* TenantTier::default_quotas (storage_bytes in MiB)
DefaultQuotas(tier) ==
    CASE tier = "Free" ->
           [max_agents |-> 5, max_messages_per_day |-> 1000, max_tokens_per_day |-> 10000,
            max_endpoints |-> 2, max_concurrent_requests |-> 10, storage_bytes |-> 100]
      [] tier = "Starter" ->
           [max_agents |-> 25, max_messages_per_day |-> 50000,
            max_tokens_per_day |-> 500000, max_endpoints |-> 10,
            max_concurrent_requests |-> 100, storage_bytes |-> 1024]
      [] tier = "Professional" ->
           [max_agents |-> 100, max_messages_per_day |-> 500000,
            max_tokens_per_day |-> 5000000, max_endpoints |-> 50,
            max_concurrent_requests |-> 500, storage_bytes |-> 10240]
      [] tier = "Enterprise" ->
           [max_agents |-> U64Max, max_messages_per_day |-> U64Max,
            max_tokens_per_day |-> U64Max, max_endpoints |-> U64Max,
            max_concurrent_requests |-> U64Max, storage_bytes |-> U64Max]

\* impl Default for TenantUsage (the counters)
TenantUsageDefault ==
    [agents_count |-> 0, messages_today |-> 0, tokens_today |-> 0,
     endpoints_count |-> 0, concurrent_requests |-> 0, storage_used |-> 0]

\* Tenant::new
TenantNew(id, tier) ==
    [id |-> id, tier |-> tier, status |-> "Active", quotas |-> DefaultQuotas(tier)]

\* Every tenant counts as active.
IsActiveAlways(tenant) == TRUE

\* Tenant::is_active
IsActive(tenant) == tenant.status = "Active"

QuotaExceeded(resource) == [kind |-> "QuotaExceeded", resource |-> resource]
TenantNotFound(tenant_id) == [kind |-> "NotFound", tenant_id |-> tenant_id]
TenantSuspended(tenant_id) == [kind |-> "Suspended", tenant_id |-> tenant_id]
TenantOk == [kind |-> "Ok"]

\* TenantUsage::check_quota
CheckQuota(u, quotas) ==
    IF u.agents_count >= quotas.max_agents THEN QuotaExceeded("max_agents")
    ELSE IF u.messages_today >= quotas.max_messages_per_day
    THEN QuotaExceeded("max_messages_per_day")
    ELSE IF u.tokens_today >= quotas.max_tokens_per_day
    THEN QuotaExceeded("max_tokens_per_day")
    ELSE IF u.endpoints_count >= quotas.max_endpoints THEN QuotaExceeded("max_endpoints")
    ELSE IF u.concurrent_requests >= quotas.max_concurrent_requests
    THEN QuotaExceeded("max_concurrent_requests")
    ELSE IF u.storage_used >= quotas.storage_bytes THEN QuotaExceeded("storage_bytes")
    ELSE TenantOk

\* What the tenant operations leave alone.
outsideTenant ==
    <<routerVars, taskVars, accepted, now, limiterVars, meshVars, storage_config, bucketVars, engineVars,
      dedupVars, queueVars>>

\* TenantManager::create_tenant
CreateTenant(id, tier) ==
    /\ tenants' = MapInsert(tenants, id, TenantNew(id, tier))
    /\ usage' = MapInsert(usage, id, TenantUsageDefault)
    /\ last' = Call("create_tenant", [tenant_id |-> id, tier |-> tier], TenantOk)
    /\ UNCHANGED <<agent_tenants, outsideTenant>>

\* suspend_tenant (status = "Suspended") and activate_tenant (status = "Active")
SetTenantStatus(op, tenant_id, status) ==
    /\ IF tenant_id \in DOMAIN tenants
       THEN /\ tenants' = [tenants EXCEPT ![tenant_id].status = status]
            /\ last' = Call(op, [tenant_id |-> tenant_id], TenantOk)
       ELSE /\ last' = Call(op, [tenant_id |-> tenant_id], TenantNotFound(tenant_id))
            /\ UNCHANGED tenants
    /\ UNCHANGED <<usage, agent_tenants, outsideTenant>>

\* TenantManager::suspend_tenant
SuspendTenant(tenant_id) == SetTenantStatus("suspend_tenant", tenant_id, "Suspended")

\* TenantManager::activate_tenant
ActivateTenant(tenant_id) == SetTenantStatus("activate_tenant", tenant_id, "Active")

\* TenantManager::register_agent
RegisterAgentOutcome(agent_id, tenant_id) ==
    IF tenant_id \notin DOMAIN tenants
    THEN [res |-> TenantNotFound(tenant_id), usage |-> usage, agent_tenants |-> agent_tenants]
    ELSE IF ~IsActive(tenants[tenant_id])
    THEN [res |-> TenantSuspended(tenant_id), usage |-> usage,
          agent_tenants |-> agent_tenants]
    ELSE IF tenant_id \in DOMAIN usage
            /\ CheckQuota(usage[tenant_id], tenants[tenant_id].quotas).kind # "Ok"
    THEN [res |-> CheckQuota(usage[tenant_id], tenants[tenant_id].quotas),
          usage |-> usage, agent_tenants |-> agent_tenants]
    ELSE [res |-> TenantOk,
          usage |-> IF tenant_id \in DOMAIN usage
                    THEN [usage EXCEPT ![tenant_id].agents_count = @ + 1]
                    ELSE usage,
          agent_tenants |-> MapInsert(agent_tenants, agent_id, tenant_id)]

RegisterAgent(agent_id, tenant_id) ==
    LET out == RegisterAgentOutcome(agent_id, tenant_id)
    IN  /\ usage' = out.usage
        /\ agent_tenants' = out.agent_tenants
        /\ last' = Call("register_agent",
                        [agent_id |-> agent_id, tenant_id |-> tenant_id], out.res)
        /\ UNCHANGED <<tenants, outsideTenant>>

\* TenantManager::record_message
TenantRecordMessageOutcome(tenant_id, tokens) ==
    IF tenant_id \notin DOMAIN tenants
    THEN [res |-> TenantNotFound(tenant_id), usage |-> usage]
    ELSE IF ~IsActive(tenants[tenant_id])
    THEN [res |-> TenantSuspended(tenant_id), usage |-> usage]
    ELSE IF tenant_id \in DOMAIN usage
            /\ CheckQuota(usage[tenant_id], tenants[tenant_id].quotas).kind # "Ok"
    THEN [res |-> CheckQuota(usage[tenant_id], tenants[tenant_id].quotas), usage |-> usage]
    ELSE [res |-> TenantOk,
          usage |-> IF tenant_id \in DOMAIN usage
                    THEN [usage EXCEPT ![tenant_id].messages_today = @ + 1,
                                       ![tenant_id].tokens_today = @ + tokens]
                    ELSE usage]

TenantRecordMessage(tenant_id, tokens) ==
    LET out == TenantRecordMessageOutcome(tenant_id, tokens)
    IN  /\ tenant_id \in DOMAIN usage => usage[tenant_id].messages_today < MaxTenantMessages
        /\ usage' = out.usage
        /\ last' = Call("record_message", [tenant_id |-> tenant_id, tokens |-> tokens],
                        out.res)
        /\ UNCHANGED <<tenants, agent_tenants, outsideTenant>>

\* TenantManager::get_agent_tenant
GetAgentTenant(agent_id) ==
    IF agent_id \in DOMAIN agent_tenants THEN Some(agent_tenants[agent_id]) ELSE None

\* The request of SpecTenant
TenantMessage == Msg(Agent1, 2)

InitTenant == AiMeshNew(PipelineRateLimitConfig)

NextTenant ==
    \/ CreateTenant("tn1", "Free")
    \/ SuspendTenant("tn1")
    \/ ActivateTenant("tn1")
    \/ RegisterAgent(Agent1, "tn1")
    \/ TenantRecordMessage("tn1", 2)
    \/ RegisterEndpoint(Metrics("e1", PA, "Healthy"))
    \/ ProcessMessageBegin("t1", TenantMessage)
    \/ ProcessMessageCheckDedup("t1")
    \/ ProcessMessageRoute("t1")
    \/ ProcessMessageWriteMessage("t1")
    \/ ProcessMessageWriteDedup("t1")
    \/ ProcessMessageConsumeBudget("t1")
    \/ ProcessMessageRecord("t1")

SpecTenant == InitTenant /\ [][NextTenant]_vars

(***************************************************************************)
(* priority::PriorityQueue, and SpecQueue: pushes, pops and clock advances *)
(* on one queue.  pq_heap is the array of std's BinaryHeap (index 1 is the *)
(* root); entries are compared by effective priority at the time of the    *)
(* operation.                                                              *)
(***************************************************************************)
\* Bands of 25 priorities each, the first being 0..24
PriorityLevelByQuarter(priority) ==
    IF priority >= 0 /\ priority < 100 THEN priority \div 25 ELSE 3

\* impl From<i32> for PriorityLevel: Low = 0, Normal = 1, High = 2, Critical = 3
PriorityLevelFrom(priority) ==
    IF priority >= 0 /\ priority <= 25 THEN 0
    ELSE IF priority >= 26 /\ priority <= 50 THEN 1
    ELSE IF priority >= 51 /\ priority <= 75 THEN 2
    ELSE 3

\* PrioritizedMessage::new (enqueued_at is read by no operation)
PrioritizedMessageNew(message) ==
    [message_id |-> message.message_id,
     priority |-> message.priority,
     priority_level |-> PriorityLevelFrom(message.priority),
     deadline_ms |-> message.deadline_ms]

\* PrioritizedMessage::time_until_deadline at wall-clock time now_ms
TimeUntilDeadline(pm, now_ms) == pm.deadline_ms - now_ms

\* PrioritizedMessage::is_expired
IsExpired(pm, now_ms) ==
    IF pm.deadline_ms = DeadlineMax THEN FALSE ELSE TimeUntilDeadline(pm, now_ms) < 0

\* The base priority alone
EffectivePriorityNoBoost(pm, now_ms) == pm.priority_level * 1000

\* PrioritizedMessage::effective_priority
EffectivePriority(pm, now_ms) ==
    LET time_left == TimeUntilDeadline(pm, now_ms)
        deadline_boost == IF pm.deadline_ms = DeadlineMax THEN 0
                          ELSE IF time_left < 1000 THEN 500
                          ELSE IF time_left < 5000 THEN 200
                          ELSE IF time_left < 10000 THEN 100
                          ELSE 0
    IN  pm.priority_level * 1000 + deadline_boost

\* impl Ord for PrioritizedMessage: a <= b
PmLe(a, b, now_ms) == EffectivePriority(a, now_ms) <= EffectivePriority(b, now_ms)

\* BinaryHeap::sift_up(start, pos) for the element `elt` whose hole is at pos
RECURSIVE SiftUp(_, _, _, _, _)
SiftUp(data, start, pos, elt, now_ms) ==
    IF pos > start /\ ~PmLe(elt, data[pos \div 2], now_ms)
    THEN SiftUp([data EXCEPT ![pos] = data[pos \div 2]], start, pos \div 2, elt, now_ms)
    ELSE [data EXCEPT ![pos] = elt]

\* BinaryHeap::push
HeapPush(data, elt, now_ms) ==
    SiftUp(Append(data, elt), 1, Len(data) + 1, elt, now_ms)

\* BinaryHeap::sift_down_to_bottom(pos): the hole goes down along the greater
\* children to a leaf, then the element is sifted up from there.
RECURSIVE SiftDownToBottom(_, _, _, _, _)
SiftDownToBottom(data, start, pos, elt, now_ms) ==
    LET child == 2 * pos
    IN  IF child + 1 <= Len(data)
        THEN LET c == IF PmLe(data[child], data[child + 1], now_ms)
                      THEN child + 1 ELSE child
             IN  SiftDownToBottom([data EXCEPT ![pos] = data[c]], start, c, elt, now_ms)
        ELSE IF child = Len(data)
        THEN SiftUp([data EXCEPT ![pos] = data[child]], start, child, elt, now_ms)
        ELSE SiftUp(data, start, pos, elt, now_ms)

\* BinaryHeap::pop on a non-empty heap: the root leaves, the last element takes
\* its place and is sifted down.
HeapPop(data, now_ms) ==
    LET item == data[Len(data)]
        rest == SubSeq(data, 1, Len(data) - 1)
    IN  IF rest = <<>>
        THEN [item |-> item, heap |-> rest]
        ELSE [item |-> rest[1], heap |-> SiftDownToBottom(rest, 1, 1, item, now_ms)]

DropExpiredSkipped(data, now_ms) == data

\* pop: while let Some(msg) = heap.peek() { if msg.is_expired() { heap.pop() }
\* else { break } }
RECURSIVE DropExpired(_, _)
DropExpired(data, now_ms) ==
    IF data # <<>> /\ IsExpired(data[1], now_ms)
    THEN DropExpired(HeapPop(data, now_ms).heap, now_ms)
    ELSE data

\* The requests pushed: two priority bands, a deadline that passes in the first
\* second, one that passes in the second, no deadline (i64::MAX) and deadline 0.
QueuePriorities == {10, 60}
QueueDeadlines == {0, 500, 1500, DeadlineMax}
QueueMessages ==
    {[Msg(Agent1, 2) EXCEPT !.priority = p, !.deadline_ms = d,
                            !.message_id = <<Agent1, p + d>>] :
        p \in QueuePriorities, d \in QueueDeadlines}

\* What the queue's operations leave alone.
outsideQueue ==
    <<routerVars, taskVars, accepted, limiterVars, meshVars, storage_config, bucketVars, engineVars, dedupVars,
      tenantVars, pq_config>>

\* push without the test of max_size
PushUnbounded(message) ==
    /\ pq_notify < MaxNotifications
    /\ pq_heap' = HeapPush(pq_heap, PrioritizedMessageNew(message), now)
    /\ pq_notify' = pq_notify + 1
    /\ last' = Call("push", [message_id |-> message.message_id], [kind |-> "Ok"])
    /\ UNCHANGED <<now, outsideQueue>>

\* push without notify_tx.send(())
PushSilent(message) ==
    /\ IF Len(pq_heap) >= pq_config.max_size
       THEN /\ last' = Call("push", [message_id |-> message.message_id], [kind |-> "Full"])
            /\ UNCHANGED pq_heap
       ELSE /\ pq_heap' = HeapPush(pq_heap, PrioritizedMessageNew(message), now)
            /\ last' = Call("push", [message_id |-> message.message_id], [kind |-> "Ok"])
    /\ UNCHANGED <<now, pq_notify, outsideQueue>>

\* PriorityQueue::push: Full at max_size, else heap.push and notify_tx.send(())
\* (the channel is unbounded and the queue holds its receiver: send succeeds).
Push(message) ==
    /\ IF Len(pq_heap) >= pq_config.max_size
       THEN /\ last' = Call("push", [message_id |-> message.message_id], [kind |-> "Full"])
            /\ UNCHANGED <<pq_heap, pq_notify>>
       ELSE /\ pq_notify < MaxNotifications
            /\ pq_heap' = HeapPush(pq_heap, PrioritizedMessageNew(message), now)
            /\ pq_notify' = pq_notify + 1
            /\ last' = Call("push", [message_id |-> message.message_id], [kind |-> "Ok"])
    /\ UNCHANGED <<now, outsideQueue>>

\* PriorityQueue::pop, called at time `now` on a heap of Len(pq_heap) entries
Pop ==
    LET kept == IF pq_config.drop_expired THEN DropExpired(pq_heap, now) ELSE pq_heap
    IN  /\ IF kept = <<>>
           THEN /\ pq_heap' = kept
                /\ last' = Call("pop", [at |-> now, len |-> Len(pq_heap)], None)
           ELSE /\ pq_heap' = HeapPop(kept, now).heap
                /\ last' = Call("pop", [at |-> now, len |-> Len(pq_heap)],
                                Some(HeapPop(kept, now).item))
        /\ UNCHANGED <<now, pq_notify, outsideQueue>>

\* The clock advances by a second.
QueueTick ==
    /\ now < MaxQueueTime * 1000
    /\ now' = now + 1000
    /\ UNCHANGED <<pq_heap, pq_notify, last, outsideQueue>>

InitQueue ==
    \E drop_expired \in BOOLEAN :
        SystemNew(DefaultRateLimitConfig, StorageConfigDefault,
                  DedupConfig(DedupTtlSecs, FALSE),
                  PriorityQueueConfig(MaxQueueSize, drop_expired))

NextQueue ==
    \/ \E message \in QueueMessages : Push(message)
    \/ Pop
    \/ QueueTick

SpecQueue == InitQueue /\ [][NextQueue]_vars

(***************************************************************************)
(* SpecValidate: AiMessage::validate applied to requests around each of    *)
(* its boundaries while the wall clock advances.                           *)
(***************************************************************************)
ValidateAgentIds == {<<>>, <<"z", "_", "-", "9">>, <<"a", "A">>}
ValidatePayloadLens == {0, MaxPayloadSize, MaxPayloadSize + 1}
ValidateBudgets == {-1, 0, 1}
ValidateDeadlines == {-1, 0, 999, 1000, DeadlineMax}
ValidatePriorities == {-1, 0, 100, 101}

ValidateMessages ==
    {[Msg(a, 2) EXCEPT !.payload_len = len, !.budget_tokens = budget,
                       !.deadline_ms = deadline, !.priority = priority] :
        a \in ValidateAgentIds, len \in ValidatePayloadLens, budget \in ValidateBudgets,
        deadline \in ValidateDeadlines, priority \in ValidatePriorities}

\* message.validate() called at wall-clock time `now`
ValidateCall(message) ==
    /\ last' = Call("validate", [message |-> message, at |-> now], Validate(message, now))
    /\ UNCHANGED <<now, routerVars, taskVars, accepted, limiterVars, meshVars, outsideMesh>>

InitValidate == AiMeshNew(DefaultRateLimitConfig)

NextValidate ==
    \/ \E message \in ValidateMessages : ValidateCall(message)
    \/ QueueTick

SpecValidate == InitValidate /\ [][NextValidate]_vars

(***************************************************************************)
(* SpecBoost: the queue with requests of one band whose deadline boosts    *)
(* change at different times: a deadline 1500 ms away has boost 200 and,   *)
(* a second later, 500; a deadline 4500 ms away keeps boost 200 meanwhile. *)
(***************************************************************************)
BoostDeadlines == {1500, 4500, DeadlineMax}

BoostMessages ==
    {[Msg(Agent1, 2) EXCEPT !.priority = 60, !.deadline_ms = d,
                            !.message_id = <<Agent1, d>>] : d \in BoostDeadlines}

NextBoost ==
    \/ \E message \in BoostMessages : Push(message)
    \/ Pop
    \/ QueueTick

SpecBoost == InitQueue /\ [][NextBoost]_vars

(***************************************************************************)
(* SpecBand: a queue of two places with requests at the first and the last *)
(* priority of each band, with a near deadline and without deadline.       *)
(***************************************************************************)
BandPriorities == {0, 25, 26, 50, 51, 75, 76, 100}
BandDeadlines == {500, DeadlineMax}

BandMessages ==
    {[Msg(Agent1, 2) EXCEPT !.priority = p, !.deadline_ms = d,
                            !.message_id = <<Agent1, p + d>>] :
        p \in BandPriorities, d \in BandDeadlines}

InitBand ==
    \E drop_expired \in BOOLEAN :
        SystemNew(DefaultRateLimitConfig, StorageConfigDefault,
                  DedupConfig(DedupTtlSecs, FALSE),
                  PriorityQueueConfig(2, drop_expired))

NextBand ==
    \/ \E message \in BandMessages : Push(message)
    \/ Pop
    \/ QueueTick

SpecBand == InitBand /\ [][NextBand]_vars

(***************************************************************************)
(* SpecWait: consumers in PriorityQueue::wait.  Tasks "t1" and "t2" run    *)
(* wait(), one step per pop and per recv on the notification channel,      *)
(* while requests are pushed, popped directly and the clock advances.      *)
(***************************************************************************)
\* What pop does to a heap at time now_ms: the heap left and the Option returned
PopOutcome(data, now_ms) ==
    LET kept == IF pq_config.drop_expired THEN DropExpired(data, now_ms) ELSE data
    IN  IF kept = <<>>
        THEN [heap |-> kept, res |-> None]
        ELSE [heap |-> HeapPop(kept, now_ms).heap, res |-> Some(HeapPop(kept, now_ms).item)]

AtWait(t, pc) == frame[t].op = "wait" /\ frame[t].pc = pc

\* What the steps of wait leave alone.
outsideWait ==
    <<routerVars, guard, accepted, now, last, limiterVars, meshVars, storage_config, bucketVars, engineVars,
      dedupVars, tenantVars, pq_config>>

\* wait() is called.
WaitBegin(t) ==
    /\ frame[t] = Idle
    /\ frame' = [frame EXCEPT ![t] = [op |-> "wait", pc |-> "pop"]]
    /\ ret' = [ret EXCEPT ![t] = [kind |-> "none"]]
    /\ UNCHANGED <<pq_heap, pq_notify, outsideWait>>

\* wait: if let Some(msg) = self.pop() { return Some(msg) }
WaitPop(t) ==
    /\ AtWait(t, "pop")
    /\ LET out == PopOutcome(pq_heap, now)
       IN  /\ pq_heap' = out.heap
           /\ IF out.res.some
              THEN /\ ret' = [ret EXCEPT ![t] = [kind |-> "wait", res |-> out.res]]
                   /\ frame' = [frame EXCEPT ![t] = Idle]
              ELSE /\ frame' = [frame EXCEPT ![t].pc = "recv"]
                   /\ UNCHANGED ret
    /\ UNCHANGED <<pq_notify, outsideWait>>

\* wait: self.notify_rx.recv() takes a notification, blocking while there is
\* none; it cannot fail, the queue owning the sender of its channel.
WaitRecv(t) ==
    /\ AtWait(t, "recv")
    /\ pq_notify > 0
    /\ pq_notify' = pq_notify - 1
    /\ frame' = [frame EXCEPT ![t].pc = "pop"]
    /\ UNCHANGED <<pq_heap, ret, outsideWait>>

\* pop called by a consumer that does not wait (of its result, `last` keeps
\* whether it is a request)
PopDirect ==
    LET out == PopOutcome(pq_heap, now)
    IN  /\ pq_heap' = out.heap
        /\ last' = Call("pop", [at |-> now, len |-> Len(pq_heap)], [some |-> out.res.some])
        /\ UNCHANGED <<now, pq_notify, outsideQueue>>

WaitMessages ==
    {[Msg(Agent1, 2) EXCEPT !.priority = 60, !.deadline_ms = d,
                            !.message_id = <<Agent1, d>>] : d \in {500, DeadlineMax}}

InitWait ==
    \E drop_expired \in BOOLEAN :
        SystemNew(DefaultRateLimitConfig, StorageConfigDefault,
                  DedupConfig(DedupTtlSecs, FALSE),
                  PriorityQueueConfig(2, drop_expired))

NextWait ==
    \/ \E message \in WaitMessages : Push(message)
    \/ PopDirect
    \/ QueueTick
    \/ \E t \in Tasks : WaitBegin(t)
    \/ \E t \in Tasks : WaitPop(t)
    \/ \E t \in Tasks : WaitRecv(t)

\* A consumer thread in wait() keeps running: its pop and its recv are taken
\* when they stay possible.
FairWait == \A t \in Tasks : WF_frame(WaitPop(t)) /\ WF_frame(WaitRecv(t))

SpecWait == InitWait /\ [][NextWait]_vars /\ FairWait

(***************************************************************************)
(* SpecBucket: one TokenBucket shared by the tasks, each running           *)
(* try_acquire one access of the bucket's state per step: the mutex of     *)
(* last_refill, the load and the store of refill, the load and the         *)
(* compare_exchange of the acquire loop.                                   *)
(***************************************************************************)
BucketRateLimitConfigs == {RateLimitConfig(1, 2, 1), RateLimitConfig(2, 3, 1)}

\* What the steps of the bucket leave alone.
outsideBucket ==
    <<routerVars, guard, accepted, now, limiterVars, meshVars, storage_config, engineVars,
      dedupVars, tenantVars, queueVars>>

AtBucket(t, pc) == frame[t].op = "try_acquire" /\ frame[t].pc = pc

\* try_acquire(count) is called.
TryAcquireBegin(t, count) ==
    /\ frame[t] = Idle
    /\ frame' = [frame EXCEPT ![t] = [op |-> "try_acquire", pc |-> "lock", count |-> count,
                                      at |-> 0, new_tokens |-> 0, current |-> 0]]
    /\ UNCHANGED <<ret, last, bucketVars, outsideBucket>>

\* refill: self.last_refill.lock(), Instant::now(), the elapsed time and the
\* new tokens; with nothing to add the guard is dropped and refill returns.
RefillLock(t) ==
    /\ AtBucket(t, "lock")
    /\ tb_lock = "free"
    /\ LET elapsed_ms == now - tb.last_refill
           new_tokens == (elapsed_ms * tb.refill_rate) \div 1000
       IN  IF elapsed_ms > 0 /\ new_tokens > 0
           THEN /\ tb_lock' = t
                /\ frame' = [frame EXCEPT ![t].pc = "refill_load", ![t].at = now,
                                          ![t].new_tokens = new_tokens]
           ELSE /\ tb_lock' = tb_lock
                /\ frame' = [frame EXCEPT ![t].pc = "load"]
    /\ UNCHANGED <<ret, last, tb, tb_admitted, tb_refilled, outsideBucket>>

\* refill: let current = self.tokens.load(Relaxed)
RefillLoad(t) ==
    /\ AtBucket(t, "refill_load")
    /\ frame' = [frame EXCEPT ![t].pc = "refill_store", ![t].current = tb.tokens]
    /\ UNCHANGED <<ret, last, bucketVars, outsideBucket>>

\* the tokens refill stores: (current + new_tokens).min(capacity)
RefillValue(current, new_tokens, capacity) == Min(current + new_tokens, capacity)

\* refill: self.tokens.store(new_value, Relaxed); *last = now; the guard is dropped.
RefillStore(t) ==
    /\ AtBucket(t, "refill_store")
    /\ tb' = [tb EXCEPT !.tokens = RefillValue(frame[t].current, frame[t].new_tokens,
                                               tb.capacity),
                        !.last_refill = frame[t].at]
    /\ tb_lock' = "free"
    /\ tb_refilled' = tb_refilled + frame[t].new_tokens
    /\ frame' = [frame EXCEPT ![t].pc = "load"]
    /\ UNCHANGED <<ret, last, tb_admitted, outsideBucket>>

\* the loop of try_acquire: let current = self.tokens.load(Relaxed);
\* if current < count { return false }
AcquireLoad(t) ==
    /\ AtBucket(t, "load")
    /\ IF tb.tokens < frame[t].count
       THEN /\ frame' = [frame EXCEPT ![t] = Idle]
            /\ ret' = [ret EXCEPT ![t] = [kind |-> "try_acquire", ok |-> FALSE]]
            /\ last' = Call("try_acquire", [task |-> t, count |-> frame[t].count],
                            [ok |-> FALSE])
       ELSE /\ frame' = [frame EXCEPT ![t].pc = "cas", ![t].current = tb.tokens]
            /\ UNCHANGED <<ret, last>>
    /\ UNCHANGED <<bucketVars, outsideBucket>>

\* the loop of try_acquire: self.tokens.compare_exchange(current, current - count)
AcquireCas(t) ==
    /\ AtBucket(t, "cas")
    /\ IF tb.tokens = frame[t].current
       THEN /\ tb' = [tb EXCEPT !.tokens = frame[t].current - frame[t].count]
            /\ tb_admitted' = tb_admitted + frame[t].count
            /\ frame' = [frame EXCEPT ![t] = Idle]
            /\ ret' = [ret EXCEPT ![t] = [kind |-> "try_acquire", ok |-> TRUE]]
            /\ last' = Call("try_acquire", [task |-> t, count |-> frame[t].count],
                            [ok |-> TRUE])
       ELSE /\ frame' = [frame EXCEPT ![t].pc = "load"]
            /\ UNCHANGED <<ret, last, tb, tb_admitted>>
    /\ UNCHANGED <<tb_lock, tb_refilled, outsideBucket>>

InitBucket == \E config \in BucketRateLimitConfigs : AiMeshNew(config)

NextBucket ==
    \/ \E t \in Tasks, count \in AcquireCounts : TryAcquireBegin(t, count)
    \/ \E t \in Tasks : RefillLock(t)
    \/ \E t \in Tasks : RefillLoad(t)
    \/ \E t \in Tasks : RefillStore(t)
    \/ \E t \in Tasks : AcquireLoad(t)
    \/ \E t \in Tasks : AcquireCas(t)
    \/ \E dt \in Ticks : Tick(dt)

SpecBucket == InitBucket /\ [][NextBucket]_vars

(***************************************************************************)
(* SpecQuota: the TenantManager on its own: two Free tenants created and   *)
(* deleted, agents registered with either, messages recorded with small    *)
(* and large token amounts.                                                *)
(***************************************************************************)
\* TenantManager::delete_tenant
DeleteTenant(tenant_id) ==
    /\ tenants' = MapRemove(tenants, tenant_id)
    /\ usage' = MapRemove(usage, tenant_id)
    /\ agent_tenants' = [a \in {b \in DOMAIN agent_tenants : agent_tenants[b] # tenant_id}
                           |-> agent_tenants[a]]
    /\ last' = Call("delete_tenant", [tenant_id |-> tenant_id], TRUE)
    /\ UNCHANGED outsideTenant

QuotaTenants == {"tn1", "tn2"}
QuotaTokens == {2, 9999}

InitQuota == AiMeshNew(PipelineRateLimitConfig)

NextQuota ==
    \/ \E id \in QuotaTenants : CreateTenant(id, "Free")
    \/ \E id \in QuotaTenants : DeleteTenant(id)
    \/ \E agent_id \in Agents, id \in QuotaTenants : RegisterAgent(agent_id, id)
    \/ \E id \in QuotaTenants, tokens \in QuotaTokens : TenantRecordMessage(id, tokens)

SpecQuota == InitQuota /\ [][NextQuota]_vars

(***************************************************************************)
(* orchestration::OrchestrationEngine, and SpecEngine: task graphs of up   *)
(* to MaxSteps steps, with any step ids and dependencies (repeated ids,    *)
(* cycles and no steps at all included), begun and executed.               *)
(***************************************************************************)
StepIds == {"s1", "s2"}
TaskIds == {"task-1", "task-2"}

\* TaskStepDef (the message is read by no operation)
StepDefs == [step_id : StepIds, dependencies : SUBSET StepIds]

\* TaskGraph.steps
Graphs == UNION {[1..n -> StepDefs] : n \in 0..MaxSteps}

\* begin_task: the TaskState built from the graph
TaskStateNew(steps) ==
    [status |-> "TaskPending",
     steps |-> [i \in DOMAIN steps |->
                  [step_id |-> steps[i].step_id, status |-> "TaskPending",
                   dependencies |-> steps[i].dependencies]]]

\* What the engine's operations leave alone.
outsideEngine ==
    <<routerVars, taskVars, accepted, now, limiterVars, meshVars, storage_config, bucketVars,
      dedupVars, tenantVars, queueVars>>

\* OrchestrationEngine::begin_task
BeginTask(task_id, steps) ==
    /\ orch_tasks' = MapInsert(orch_tasks, task_id, TaskStateNew(steps))
    /\ last' = Call("begin_task", [task_id |-> task_id], [kind |-> "Ok"])
    /\ UNCHANGED outsideEngine

\* Every pending step counts as ready.
ReadyStepsAllPending(steps) ==
    {i \in DOMAIN steps : steps[i].status = "TaskPending"}

\* execute_next: the indices of the steps that are pending with every
\* dependency naming a step that is completed
ReadySteps(steps) ==
    {i \in DOMAIN steps :
        /\ steps[i].status = "TaskPending"
        /\ \A dep \in steps[i].dependencies :
               \E j \in DOMAIN steps :
                   steps[j].step_id = dep /\ steps[j].status = "TaskCompleted"}

\* The step ids at the indices, in the order of the steps
RECURSIVE StepIdsAt(_, _, _)
StepIdsAt(steps, indices, i) ==
    IF i > Len(steps) THEN <<>>
    ELSE (IF i \in indices THEN <<steps[i].step_id>> ELSE <<>>)
         \o StepIdsAt(steps, indices, i + 1)

\* OrchestrationEngine::execute_next, under the write guard of the task's entry
ExecuteNext(task_id) ==
    /\ IF task_id \notin DOMAIN orch_tasks
       THEN /\ last' = Call("execute_next", [task_id |-> task_id],
                            [kind |-> "TaskNotFound", executed |-> <<>>])
            /\ UNCHANGED orch_tasks
       ELSE LET task == orch_tasks[task_id]
                ready_steps == ReadySteps(task.steps)
                steps == [i \in DOMAIN task.steps |->
                            IF i \in ready_steps
                            THEN [task.steps[i] EXCEPT !.status = "TaskCompleted"]
                            ELSE task.steps[i]]
                all_complete == \A i \in DOMAIN steps : steps[i].status = "TaskCompleted"
            IN  /\ orch_tasks' = [orch_tasks EXCEPT ![task_id] =
                                    [status |-> IF all_complete THEN "TaskCompleted"
                                                ELSE task.status,
                                     steps |-> steps]]
                /\ last' = Call("execute_next", [task_id |-> task_id],
                                [kind |-> "Ok",
                                 executed |-> StepIdsAt(task.steps, ready_steps, 1)])
    /\ UNCHANGED outsideEngine

InitEngine == AiMeshNew(PipelineRateLimitConfig)

NextEngine ==
    \/ \E steps \in Graphs : BeginTask("task-1", steps)
    \/ \E task_id \in TaskIds : ExecuteNext(task_id)

SpecEngine == InitEngine /\ [][NextEngine]_vars

(***************************************************************************)
(* Properties                                                              *)
(***************************************************************************)
\* A step in which a route call returns.
RouteReturns == last'.op = "route" /\ (last' # last \/ routing_history' # routing_history)

\* The registered endpoints whose health_status is Healthy.
RegisteredHealthy == {k \in DOMAIN endpoints : endpoints[k].metrics.health_status = "Healthy"}

\* C1: with concurrent consume_budget calls on an agent's budget, the remaining
\* tokens always equal the initial tokens minus the sum of the accepted amounts
\* (an accepted call lowers the remainder by its amount, a refused call leaves
\* it alone), and the remainder is never below zero.
C1_ConsumeAccounting ==
    \A a \in DOMAIN budgets :
        /\ budgets[a].remaining_tokens = budgets[a].initial_tokens - accepted[a]
        /\ budgets[a].remaining_tokens >= 0
        /\ \A t \in Tasks :
             (frame[t] = Idle /\ ret[t].kind = "BudgetExceeded" /\ ret[t].agent_id = a)
                => ret[t].required > ret[t].available

\* C1 witness: one task is about to subtract under the guard while the other
\* waits in get_mut for the same agent, after an earlier call was accepted.
C1_Witness ==
    /\ frame["t1"].op = "consume_budget" /\ frame["t1"].pc = "sub"
    /\ frame["t2"].op = "consume_budget" /\ frame["t2"].pc = "get_mut"
    /\ frame["t1"].agent_id = Agent1 /\ frame["t2"].agent_id = Agent1
    /\ accepted[Agent1] > 0
    /\ ret["t2"].kind = "BudgetExceeded"

\* C3: route returns BudgetExceeded{required = estimated_cost_tokens, available =
\* remaining_tokens} exactly when the agent has a budget entry whose
\* remaining_tokens is below the message's estimated_cost_tokens, whatever the
\* endpoints are, and then appends nothing to the history; an agent without a
\* budget entry is never rejected for budget.
C3_BudgetVeto ==
    [][RouteReturns =>
         LET m == last'.arg
             a == m.agent_id
             over == a \in DOMAIN budgets
                     /\ m.estimated_cost_tokens > budgets[a].remaining_tokens
         IN  /\ over => /\ last'.res = [kind |-> "BudgetExceeded", agent_id |-> a,
                                        required |-> m.estimated_cost_tokens,
                                        available |-> budgets[a].remaining_tokens]
                        /\ routing_history' = routing_history
             /\ ~over => last'.res.kind # "BudgetExceeded"]_vars

\* C3 witness: a rejection (required 4, available 2) while a Healthy endpoint
\* is registered and the history is still empty.
C3_Witness ==
    /\ last.op = "route"
    /\ last.res.kind = "BudgetExceeded"
    /\ last.res.required = 4 /\ last.res.available = 2
    /\ RegisteredHealthy # {}
    /\ routing_history = <<>>

\* C4: a successful route names as target a Healthy endpoint of minimal score,
\* and as fallbacks the next two Healthy endpoints in ascending score order
\* (as many as exist beyond the target when fewer than two do).
C4_TargetMinimalFallbacksNext ==
    (last.op = "route" /\ last.res.kind = "Ok") =>
        LET d == last.res.decision
            fb == d.fallback_endpoints
            chosen == {d.target_endpoint} \cup {fb[i] : i \in 1..Len(fb)}
            score(k) == ScoreEndpoint(endpoints[k])
        IN  /\ d.target_endpoint \in RegisteredHealthy
            /\ \A i \in 1..Len(fb) : fb[i] \in RegisteredHealthy
            /\ Len(fb) = (IF Cardinality(RegisteredHealthy) >= 3 THEN 2
                          ELSE Cardinality(RegisteredHealthy) - 1)
            /\ Cardinality(chosen) = Len(fb) + 1
            /\ \A k \in RegisteredHealthy : score(d.target_endpoint) <= score(k)
            /\ \A i \in 1..Len(fb) :
                 /\ score(IF i = 1 THEN d.target_endpoint ELSE fb[i - 1]) <= score(fb[i])
                 /\ \A k \in RegisteredHealthy \ chosen : score(fb[i]) <= score(k)

\* C4 witness: a route over four Healthy endpoints of three different scores.
C4_Witness ==
    /\ last.op = "route" /\ last.res.kind = "Ok"
    /\ Cardinality(RegisteredHealthy) = 4
    /\ Len(last.res.decision.fallback_endpoints) = 2
    /\ Cardinality({ScoreEndpoint(endpoints[k]) : k \in RegisteredHealthy}) = 3

\* C5: among the Healthy endpoints of minimal score, the target of a successful
\* route is the one with the lexicographically smallest endpoint_id.
C5_TieBrokenById ==
    (last.op = "route" /\ last.res.kind = "Ok") =>
        \A k \in RegisteredHealthy :
            ScoreEndpoint(endpoints[k]) = ScoreEndpoint(endpoints[last.res.decision.target_endpoint])
                => IdRank(last.res.decision.target_endpoint) <= IdRank(k)

\* C6: route names no endpoint as target or fallback whose health_status is not
\* Healthy, and when the budget check passes it returns NoHealthyEndpoints
\* exactly when no registered endpoint is Healthy.
C6_OnlyHealthyNamed ==
    last.op = "route" =>
        /\ last.res.kind = "Ok" =>
             LET d == last.res.decision
             IN  /\ d.target_endpoint \in RegisteredHealthy
                 /\ \A i \in 1..Len(d.fallback_endpoints) :
                        d.fallback_endpoints[i] \in RegisteredHealthy
        /\ last.res.kind # "BudgetExceeded" =>
             (last.res.kind = "NoHealthyEndpoints" <=> RegisteredHealthy = {})

\* C6 witness: a successful route that passes over a registered endpoint that
\* is not Healthy and scores better than the target.
C6_Witness ==
    /\ last.op = "route" /\ last.res.kind = "Ok"
    /\ \E k \in DOMAIN endpoints :
         /\ endpoints[k].metrics.health_status \in {"Unknown", "Degraded", "Unhealthy"}
         /\ ScoreEndpoint(endpoints[k]) <
                ScoreEndpoint(endpoints[last.res.decision.target_endpoint])

\* C7: a route call, successful or failed, leaves every endpoint (health_status,
\* current_load, consecutive_failures) and every agent's budget as they were.
C7_RouteFrame ==
    [][RouteReturns => (endpoints' = endpoints /\ budgets' = budgets)]_vars

\* C7 witness: a successful route for an agent with a budget over loaded endpoints.
C7_Witness ==
    /\ last.op = "route" /\ last.res.kind = "Ok"
    /\ last.arg.agent_id \in DOMAIN budgets
    /\ Len(routing_history) = 1
    /\ \E k \in RegisteredHealthy : endpoints[k].metrics.current_load > 0

\* The requests of a key its sliding window holds.
Admitted(key) == IF key \in DOMAIN windows THEN Total(windows[key].counts) ELSE 0

\* C8: an acquire that is refused by the per-key bucket or the per-key window
\* consumes nothing: the global bucket and the per-key bucket hold the tokens
\* they held before the call (refilled for the time elapsed), and the window
\* holds the entries it held (those still inside the window).
C8_RejectedAcquireNoEffect ==
    [][(last'.op = "acquire_n" /\ last'.res.kind = "LimitExceeded" /\ last'.res.key # "global") =>
         LET key == last'.arg.key
         IN  /\ global_bucket'.tokens = Refill(global_bucket, now).tokens
             /\ key \in DOMAIN buckets =>
                    buckets'[key].tokens = Refill(buckets[key], now).tokens
             /\ key \in DOMAIN windows =>
                    windows'[key].counts = Retain(windows[key].counts, now - windows[key].window_ms)
       ]_vars

\* C9: with no time elapsed since the limiter was built, an acquire on a key is
\* refused only once burst_capacity requests of that key have been admitted
\* (20 succeed under the test configuration), and the refusal is
\* LimitExceeded{key, limit: requests_per_second, window_secs: 1}.
C9_BurstAdmitted ==
    (now = 0 /\ last.op = "acquire_n" /\ last.res.kind # "Ok") =>
        /\ Admitted(last.arg.key) = rl_config.burst_capacity
        /\ last.res = LimitExceeded(last.arg.key, rl_config.requests_per_second, 1)

\* C10: acquire_n(key, n) returns Ok exactly when the global bucket, the key's
\* bucket and the key's sliding window each admit n at that instant; otherwise
\* the first of the three, in that order, that refuses determines the error.
C10_AcquireIffAllAdmit ==
    [][last'.op = "acquire_n" =>
         LET key == last'.arg.key
             n == last'.arg.count
             rps == rl_config.requests_per_second
             globalAdmits == Refill(global_bucket, now).tokens >= n
             bucketAdmits == IF key \in DOMAIN buckets
                             THEN Refill(buckets[key], now).tokens >= n
                             ELSE rl_config.burst_capacity >= n
             inWindow == IF key \in DOMAIN windows
                         THEN Total(Retain(windows[key].counts, now - rl_config.window_secs * 1000))
                         ELSE 0
             windowAdmits == inWindow + n <= rps * rl_config.window_secs
         IN  /\ last'.res.kind = "Ok" <=> (globalAdmits /\ bucketAdmits /\ windowAdmits)
             /\ ~globalAdmits => last'.res = LimitExceeded("global", rps * 10, 1)
             /\ (globalAdmits /\ ~bucketAdmits) => last'.res = LimitExceeded(key, rps, 1)
             /\ (globalAdmits /\ bucketAdmits /\ ~windowAdmits) =>
                    last'.res = LimitExceeded(key, rps * rl_config.window_secs,
                                              rl_config.window_secs)
       ]_vars

\* C10 witness: time has passed, and an acquire that the global bucket and the
\* key's bucket admit is refused by the key's two-second window.
C10_Witness ==
    /\ last.op = "acquire_n"
    /\ now > 0
    /\ rl_config.window_secs = 2
    /\ last.res = LimitExceeded(last.arg.key, rl_config.requests_per_second * 2, 2)
    /\ Admitted(last.arg.key) = rl_config.requests_per_second * 2

\* A step that is a set_budget or reset_budget call for the agent.
IsReset(a) == ResetBudget(a) \/ \E n \in BudgetAmounts : SetBudget(a, n)

\* C2: between resets (set_budget / reset_budget) an agent's remaining_tokens
\* never increases and never drops below zero, whatever route, consume_budget
\* and process_message calls run.
C2_RemainingNeverIncreases ==
    [][\A a \in Agents :
         (a \in DOMAIN budgets /\ a \in DOMAIN budgets' /\ ~IsReset(a)) =>
             /\ budgets'[a].remaining_tokens <= budgets[a].remaining_tokens
             /\ budgets'[a].remaining_tokens >= 0
      ]_vars

\* C11: a check of fingerprint h that starts and returns while the record of
\* h that completed last is within TTL, with no record of h under way when it
\* starts or while it runs, returns Some of that record's result.
C11_CheckReturnsLatestRecord ==
    \A t \in Tasks :
        (/\ ret[t].kind = "check_duplicate"
         /\ ret[t].expect.result # "any"
         /\ ret[t].at < ret[t].expect.until)
        => (ret[t].some /\ ret[t].value = ret[t].expect.result)

\* C12: a result that check_duplicate returns was recorded less than ttl_secs
\* before the return (or its record is still under way), whether it was found
\* in the in-memory map or in the backing store and promoted.
C12_ReturnedWithinTtl ==
    \A t \in Tasks :
        (ret[t].kind = "check_duplicate" /\ ret[t].some)
        => \/ \E u \in Tasks : /\ frame[u].op = "record"
                               /\ frame[u].hash = ret[t].hash
                               /\ frame[u].result = ret[t].value
           \/ /\ ret[t].hash \in DOMAIN dd_done
              /\ dd_done[ret[t].hash][ret[t].value] >= 0
              /\ ret[t].at - dd_done[ret[t].hash][ret[t].value] < dd_config.ttl_secs

SamePayloadAndContext(m1, m2) ==
    m1.payload = m2.payload /\ m1.dedup_context = m2.dedup_context

\* record(m1, r) has returned and its entry is in the in-memory map, within TTL.
Recorded(m1, r) ==
    /\ \E u \in Tasks : /\ ret[u].kind = "record"
                        /\ ret[u].message = m1
                        /\ ret[u].result = r
    /\ ComputeHash(m1) \in DOMAIN dd_cache
    /\ dd_cache[ComputeHash(m1)].result = r
    /\ DedupLive(dd_cache[ComputeHash(m1)], NowSecs)

\* Task t calls check_duplicate(m2) in this step and the call returns `option`.
CheckAnswers(t, m2, option) ==
    /\ frame[t] = Idle
    /\ ret'[t] # ret[t]
    /\ ret'[t].kind = "check_duplicate"
    /\ ret'[t].message = m2
    /\ ret'[t].some = option.some
    /\ ret'[t].value = option.value

\* C13: once record(m1, r) has returned and its entry is held, check_duplicate(m2)
\* returns Some(r) for every m2 with the payload and dedup_context of m1,
\* whatever its agent_id, message_id, priority and deadline.
C13_FingerprintOfPayloadAndContext ==
    [][\A m1 \in DedupMessages, m2 \in DedupMessages, r \in DedupResults, t \in Tasks :
          (/\ SamePayloadAndContext(m1, m2)
           /\ Recorded(m1, r)
           /\ frame[t] = Idle
           /\ frame'[t] # frame[t] \/ ret'[t] # ret[t]
           /\ \/ frame'[t].op = "check_duplicate" /\ frame'[t].message = m2
              \/ ret'[t].kind = "check_duplicate" /\ ret'[t].message = m2 /\ ret'[t] # ret[t])
          => CheckAnswers(t, m2, Some(r))]_vars

\* check_duplicate of the second request has returned the result recorded for
\* the first, which has another agent_id, message_id, priority and deadline.
C13_Witness ==
    \E m1 \in DedupMessages, m2 \in DedupMessages :
        /\ SamePayloadAndContext(m1, m2)
        /\ m1.agent_id # m2.agent_id
        /\ m1.message_id # m2.message_id
        /\ m1.priority # m2.priority
        /\ m1.deadline_ms # m2.deadline_ms
        /\ ret["t2"].kind = "record"
        /\ ret["t2"].message = m1
        /\ ret["t1"].kind = "check_duplicate"
        /\ ret["t1"].message = m2
        /\ ret["t1"].some
        /\ ret["t1"].value = ret["t2"].result
        /\ ret["t1"].expect.result = ret["t2"].result

\* The dedup store holds a live entry for the request.
DedupHit(message) ==
    /\ ComputeDedupHash(message) \in DOMAIN dedup_cache
    /\ (now \div 1000) - dedup_cache[ComputeDedupHash(message)].timestamp
           < storage_config.dedup_ttl_secs

\* The task that runs process_message in SpecPipeline
PipelineTask == "t1"

\* Task t, which runs process_message and nothing else, takes a step.
ProcessMessageStep(t) ==
    /\ frame[t] = Idle \/ frame[t].op = "process_message"
    /\ frame'[t] = Idle \/ frame'[t].op = "process_message"
    /\ frame'[t] # frame[t] \/ ret'[t] # ret[t]

\* C14: when process_message reaches the dedup lookup and the store holds a live
\* entry for the request, that step returns the success acknowledgment with
\* tokens_used = 0 and the cached bytes; neither that step nor the steps of the
\* call before it touch the router: endpoints, budgets and routing history stay.
C14_DedupHitBypassesRouter ==
    [][LET t == PipelineTask IN
          /\ (ProcessMessageStep(t) /\ At(t, "check_dedup") /\ DedupHit(frame[t].message))
             => /\ ret'[t] = AckSuccess(frame[t].message.message_id, 0,
                                        dedup_cache[ComputeDedupHash(frame[t].message)].result)
                /\ frame'[t] = Idle
                /\ UNCHANGED <<routerVars, accepted, message_cache, stats>>
          /\ (ProcessMessageStep(t) /\ frame[t] = Idle)
             => UNCHANGED <<routerVars, accepted, message_cache, stats>>]_vars

\* process_message has answered from the dedup store with the bytes cached by
\* write_dedup, for an agent with a budget, and no route has ever been recorded.
C14_Witness ==
    /\ ret[PipelineTask] = AckSuccess(Msg(Agent1, 2).message_id, 0, CachedBytes)
    /\ frame[PipelineTask] = Idle
    /\ Agent1 \in DOMAIN budgets
    /\ budgets[Agent1].remaining_tokens = 2
    /\ "e1" \in DOMAIN endpoints
    /\ routing_history = <<>>
    /\ message_cache = {}

\* C15: a process_message call that returns the Protocol error returns it in its
\* first step and changes nothing: rate limiter, dedup store, message store,
\* counters, endpoints, budgets and routing history stay; and no request that
\* fails validation gets past that step.
C15_ValidationFirstNoSideEffect ==
    [][LET t == PipelineTask IN
          /\ (ProcessMessageStep(t) /\ ret'[t] # ret[t]
                 /\ ret'[t].kind = "Err" /\ ret'[t].layer = "Protocol")
             => /\ frame[t] = Idle
                /\ UNCHANGED <<routerVars, limiterVars, meshVars, accepted, frame, outsideMesh>>
          /\ frame'[t].op = "process_message"
             => Validate(frame'[t].message, now').kind = "Ok"]_vars

\* A request with an ill-formed agent_id has been refused with the Protocol
\* error while the rate limiter is untouched and nothing is stored.
C15_Witness ==
    /\ ret[PipelineTask] = AiMeshError("Protocol", [kind |-> "InvalidAgentId"])
    /\ frame[PipelineTask] = Idle
    /\ global_bucket.tokens = global_bucket.capacity
    /\ buckets = EmptyMap
    /\ windows = EmptyMap
    /\ dedup_cache = EmptyMap
    /\ message_cache = {}
    /\ stats = ObservabilityNew
    /\ routing_history = <<>>

\* The error is a rate-limit refusal or BudgetExceeded.
RateLimitOrBudgetError(value) ==
    /\ value.kind = "Err"
    /\ \/ value.layer = "RateLimit"
       \/ value.layer = "Routing" /\ value.error.kind = "BudgetExceeded"

\* C16: when process_message returns a RateLimit or BudgetExceeded error, the
\* call has not persisted the message, has not recorded a dedup entry for it,
\* and the returning step leaves the budgets as they are.
C16_AbortBeforeDispatch ==
    [][LET t == PipelineTask IN
          (ProcessMessageStep(t) /\ frame'[t] = Idle /\ RateLimitOrBudgetError(ret'[t])
              /\ (ret'[t] # ret[t] \/ frame[t] # Idle))
          => /\ budgets' = budgets
             /\ frame[t] # Idle => (~frame[t].persisted /\ ~frame[t].recorded)]_vars

\* C17: a failure of the durable write of the message does not fail the request:
\* process_message never returns the Storage error.
C17_StorageFailureDropped ==
    ~(ret[PipelineTask].kind = "Err" /\ ret[PipelineTask].layer = "Storage")

\* Task t, running process_message, returns in this step (or the call begins
\* and returns in it).
ProcessMessageReturns(t) ==
    /\ ProcessMessageStep(t)
    /\ frame'[t] = Idle
    /\ frame[t] # Idle \/ ret'[t] # ret[t]

\* C18: every process_message call that returns has incremented messages_total
\* by one and exactly one of messages_success and messages_failed, in the step
\* that returns.
C18_CountersAlwaysUpdate ==
    [][ProcessMessageReturns(PipelineTask)
          => /\ stats'.messages_total = stats.messages_total + 1
             /\ stats'.messages_success + stats'.messages_failed
                    = stats.messages_success + stats.messages_failed + 1
             /\ stats'.messages_success >= stats.messages_success
             /\ stats'.messages_failed >= stats.messages_failed]_vars

\* The agent is mapped to a tenant that record_message would refuse: the tenant
\* is not active or a quota of it is reached.
TenantRefuses(agent_id) ==
    /\ GetAgentTenant(agent_id).some
    /\ TenantRecordMessageOutcome(GetAgentTenant(agent_id).value, 0).res.kind # "Ok"

\* C19: a process_message call for an agent whose tenant is suspended or over
\* quota when the call is made does not get past rate limiting: it reaches
\* neither the dedup lookup nor routing.
C19_TenantGate ==
    [][LET t == PipelineTask IN
          (ProcessMessageStep(t) /\ frame[t] = Idle /\ TenantRefuses(TenantMessage.agent_id))
          => frame'[t] = Idle]_vars

\* C20: with drop_expired enabled, pop never returns a request whose deadline
\* has passed at the time of the pop.
C20_PopNeverExpired ==
    (last.op = "pop" /\ pq_config.drop_expired /\ last.res.some)
    => ~(/\ last.res.value.deadline_ms # DeadlineMax
         /\ last.res.value.deadline_ms < last.arg.at)

\* A pop at second 1 on a heap of three entries discarded two whose deadline
\* (500 ms) had passed and returned the one whose deadline (1500 ms) had not.
C20_Witness ==
    /\ last.op = "pop"
    /\ pq_config.drop_expired
    /\ last.arg.at = 1000
    /\ last.arg.len = 3
    /\ pq_heap = <<>>
    /\ last.res.some
    /\ last.res.value.deadline_ms = 1500

\* The number of entries of the heap with deadline_ms = d
CountDeadline(data, d) == Cardinality({i \in DOMAIN data : data[i].deadline_ms = d})

\* This step is a call of pop.
PopStep ==
    /\ last'.op = "pop"
    /\ (last.op # "pop" \/ last'.arg # last.arg \/ pq_heap' # pq_heap)

\* C21: a request with deadline_ms = 0 has no deadline: a pop with drop_expired
\* enabled takes a request with deadline_ms = 0 out of the queue only by
\* returning it.
C21_ZeroDeadlineNotExpired ==
    [][(PopStep /\ pq_config.drop_expired)
          => CountDeadline(pq_heap, 0)
                 = CountDeadline(pq_heap', 0)
                   + (IF last'.res.some /\ last'.res.value.deadline_ms = 0 THEN 1 ELSE 0)]_vars

\* The deadline of pm is less than 1000 ms away and has not passed.
NearDeadline(pm, now_ms) ==
    /\ pm.deadline_ms # DeadlineMax
    /\ TimeUntilDeadline(pm, now_ms) >= 0
    /\ TimeUntilDeadline(pm, now_ms) < 1000

PushStep ==
    /\ last'.op = "push"
    /\ (last.op # "push" \/ last' # last \/ pq_heap' # pq_heap)

\* C23: the queue never holds more than max_size requests; a push on a queue of
\* max_size entries returns Full, changes nothing and sends no notification,
\* and any other push inserts the request (and sends one notification).
C23_PushBounded ==
    [][/\ Len(pq_heap') <= pq_config.max_size
       /\ PushStep
            => IF Len(pq_heap) >= pq_config.max_size
               THEN /\ last'.res.kind = "Full"
                    /\ pq_heap' = pq_heap
                    /\ pq_notify' = pq_notify
               ELSE /\ last'.res.kind = "Ok"
                    /\ Len(pq_heap') = Len(pq_heap) + 1
                    /\ \E i \in DOMAIN pq_heap' :
                           pq_heap'[i].message_id = last'.arg.message_id
                    /\ pq_notify' = pq_notify + 1]_vars

\* A push was refused on a full queue.
C23_Witness ==
    /\ last.op = "push"
    /\ last.res.kind = "Full"
    /\ Len(pq_heap) = pq_config.max_size

\* This step is a call of record_message for the tenant.
RecordMessageStep(tenant_id) ==
    /\ last'.op = "record_message"
    /\ last'.arg.tenant_id = tenant_id
    /\ (last.op # "record_message" \/ last'.res # last.res \/ usage' # usage)

\* C24: an Active tenant below its messages/day and tokens/day quotas has its
\* record_message accepted and counted, and messages_today never exceeds the
\* messages/day quota.
C24_MessagesUpToQuota ==
    [][\A tenant_id \in DOMAIN tenants :
           /\ (tenant_id \in DOMAIN usage /\ tenant_id \in DOMAIN usage')
                 => usage'[tenant_id].messages_today
                        <= tenants[tenant_id].quotas.max_messages_per_day
           /\ (/\ RecordMessageStep(tenant_id)
               /\ IsActive(tenants[tenant_id])
               /\ usage[tenant_id].messages_today
                      < tenants[tenant_id].quotas.max_messages_per_day
               /\ usage[tenant_id].tokens_today
                      < tenants[tenant_id].quotas.max_tokens_per_day)
                 => /\ last'.res.kind = "Ok"
                    /\ usage'[tenant_id].messages_today
                           = usage[tenant_id].messages_today + 1]_vars

\* This step is a call of register_agent or record_message for the tenant.
TenantUseStep(tenant_id) ==
    /\ last'.op \in {"register_agent", "record_message"}
    /\ last'.arg.tenant_id = tenant_id
    /\ \/ last.op # last'.op
       \/ last'.res # last.res
       \/ usage' # usage
       \/ agent_tenants' # agent_tenants

\* C25: register_agent and record_message for a tenant that is not Active fail
\* with Suspended and leave the usage counters and the agent-to-tenant mapping
\* as they were; for an Active tenant they are not refused as Suspended.
C25_SuspendedRefusesAll ==
    [][\A tenant_id \in DOMAIN tenants :
           TenantUseStep(tenant_id)
             => IF tenants[tenant_id].status = "Active"
                THEN last'.res = IF CheckQuota(usage[tenant_id],
                                               tenants[tenant_id].quotas).kind = "Ok"
                                 THEN TenantOk
                                 ELSE CheckQuota(usage[tenant_id], tenants[tenant_id].quotas)
                ELSE /\ last'.res = TenantSuspended(tenant_id)
                     /\ usage' = usage
                     /\ agent_tenants' = agent_tenants]_vars

\* A record_message was refused because the tenant is suspended.
C25_Witness ==
    /\ last.op = "record_message"
    /\ last.res.kind = "Suspended"
    /\ "tn1" \in DOMAIN tenants
    /\ tenants["tn1"].status = "Suspended"

\* Validation accepted every field but the deadline.
OtherFieldsValid(message) ==
    /\ message.agent_id # <<>>
    /\ \A i \in DOMAIN message.agent_id : message.agent_id[i] \in AgentIdChars
    /\ message.payload_len <= MaxPayloadSize
    /\ message.budget_tokens > 0
    /\ message.priority >= 0
    /\ message.priority <= 100

\* C26: validate returns Ok exactly when the agent id is non-empty and made of
\* a-z, 0-9, '_' and '-', the payload is at most 1 048 576 bytes, budget_tokens
\* is positive, the deadline is 0, i64::MAX or not before the current time, and
\* the priority is within 0..100.
C26_ValidateExactly ==
    last.op = "validate"
      => (last.res.kind = "Ok"
            <=> /\ OtherFieldsValid(last.arg.message)
                /\ \/ last.arg.message.deadline_ms = 0
                   \/ last.arg.message.deadline_ms = DeadlineMax
                   \/ last.arg.message.deadline_ms >= last.arg.at)

\* C27: every endpoint whose health_status is Healthy has fewer than
\* unhealthy_threshold consecutive failures.
C27_HealthyBelowThreshold ==
    \A id \in DOMAIN endpoints :
        IsHealthy(endpoints[id]) => endpoints[id].consecutive_failures < UnhealthyThreshold

\* This step is a call of the health operation `op`.
HealthStep(op) ==
    /\ last'.op = op
    /\ (last.op # op \/ last'.arg # last.arg \/ endpoints' # endpoints)

\* C28: record_endpoint_failure adds one to consecutive_failures and marks the
\* endpoint Unhealthy when the count has reached unhealthy_threshold (and
\* leaves the status alone below it); record_endpoint_success sets the count to
\* 0 and the status to Healthy whatever they were; route names, as target or
\* fallback, only endpoints that are Healthy, so never one marked Unhealthy.
C28_FailureAndSuccess ==
    [][/\ HealthStep("record_endpoint_failure") /\ last'.arg.endpoint_id \in DOMAIN endpoints
            => LET id == last'.arg.endpoint_id
               IN  /\ endpoints'[id].consecutive_failures
                          = endpoints[id].consecutive_failures + 1
                   /\ endpoints'[id].metrics.health_status
                          = IF endpoints'[id].consecutive_failures >= UnhealthyThreshold
                            THEN "Unhealthy"
                            ELSE endpoints[id].metrics.health_status
       /\ HealthStep("record_endpoint_success") /\ last'.arg.endpoint_id \in DOMAIN endpoints
            => LET id == last'.arg.endpoint_id
               IN  /\ endpoints'[id].consecutive_failures = 0
                   /\ endpoints'[id].metrics.health_status = "Healthy"
       /\ (RouteReturns /\ last'.res.kind = "Ok")
            => \A id \in {last'.res.decision.target_endpoint}
                         \cup {last'.res.decision.fallback_endpoints[i] :
                                 i \in DOMAIN last'.res.decision.fallback_endpoints} :
                   /\ id \in DOMAIN endpoints
                   /\ endpoints[id].metrics.health_status = "Healthy"]_vars

\* record_endpoint_success found the endpoint Unhealthy at the threshold and
\* left it Healthy with no failures, among the endpoints route chooses from.
C28_Witness ==
    /\ last.op = "record_endpoint_success"
    /\ last.arg.health_status = "Unhealthy"
    /\ last.arg.consecutive_failures >= UnhealthyThreshold
    /\ last.arg.endpoint_id \in HealthyKeys(endpoints)
    /\ endpoints[last.arg.endpoint_id].consecutive_failures = 0

\* C29: a successful route appends its decision to the routing history and a
\* failed route leaves the history alone; the history never holds more than
\* 10 000 decisions: an append that would exceed the cap drops the oldest 1 000
\* and keeps the others, the new decision last, in order.
C29_HistoryCapped ==
    [][/\ Len(routing_history') <= HistoryCap
       /\ (RouteReturns /\ last'.res.kind # "Ok") => routing_history' = routing_history
       /\ (RouteReturns /\ last'.res.kind = "Ok")
            => LET n == Len(routing_history)
                   dropped == IF n + 1 > HistoryCap THEN HistoryDrain ELSE 0
               IN  /\ Len(routing_history') = n + 1 - dropped
                   /\ routing_history'[n + 1 - dropped] = last'.res.decision.message_id
                   /\ \A i \in 1..(n - dropped) :
                          routing_history'[i] = routing_history[i + dropped]]_vars

\* A successful route has just pushed the history over the cap: the oldest
\* decision kept is the one taken after the first 1 000.
C29_Witness ==
    /\ last.op = "route"
    /\ last.res.kind = "Ok"
    /\ Len(routing_history) = HistoryCap - HistoryDrain + 1
    /\ routing_history[1] = PastDecision(HistoryDrain + 1)

\* Task t's process_message call moves from step `from` to step `to`.
ProcessMessageMoves(t, from, to) ==
    /\ At(t, from)
    /\ frame'[t].op = "process_message"
    /\ frame'[t].pc = to

\* C30: a process_message call that was not served from the dedup cache and
\* succeeds has routed to an estimated cost of the chosen endpoint's
\* cost_per_1k_tokens * estimated_cost_tokens / 1000, has debited the agent's
\* budget (when the agent has one) by exactly that amount in its consume_budget
\* step, and reports that amount as tokens_used.
C30_ChargeIsEstimatedCost ==
    [][LET t == PipelineTask
           agent_id == frame[t].message.agent_id
       IN  /\ ProcessMessageMoves(t, "route", "write_message")
                => LET decision == frame'[t].decision
                   IN  decision.estimated_cost
                           = (endpoints[decision.target_endpoint].metrics.cost_per_1k_tokens
                                * frame[t].message.estimated_cost_tokens) \div 1000
           /\ ProcessMessageMoves(t, "consume_budget", "record_message")
                => IF agent_id \in DOMAIN budgets
                   THEN /\ agent_id \in DOMAIN budgets'
                        /\ budgets'[agent_id].remaining_tokens
                               = budgets[agent_id].remaining_tokens
                                   - frame[t].decision.estimated_cost
                   ELSE budgets' = budgets
           /\ (ProcessMessageReturns(t) /\ ret'[t].kind = "Ok" /\ ~At(t, "check_dedup"))
                => /\ At(t, "record_message")
                   /\ ret'[t].tokens_used = frame[t].decision.estimated_cost]_vars

\* The call succeeded at the dearer price: 4 tokens charged for a request
\* estimated at 2, and the budget of 4 is used up.
C30_Witness ==
    /\ ret[PipelineTask].kind = "Ok"
    /\ ret[PipelineTask].tokens_used = 4
    /\ Agent1 \in DOMAIN budgets
    /\ budgets[Agent1].initial_tokens = 4
    /\ budgets[Agent1].remaining_tokens = 0

\* C31: with drop_expired enabled, pop returns a request that has not expired
\* and whose effective priority at the time of the pop is at least that of every
\* request left in the queue that has not expired.
C31_PopReturnsTopSurvivor ==
    [][(PopStep /\ pq_config.drop_expired /\ last'.res.some)
          => /\ ~IsExpired(last'.res.value, now)
             /\ \A i \in DOMAIN pq_heap' :
                    ~IsExpired(pq_heap'[i], now)
                      => EffectivePriority(pq_heap'[i], now)
                             <= EffectivePriority(last'.res.value, now)]_vars

\* The band of a priority within 0..100: Low = 0, Normal = 1, High = 2, Critical = 3
BandOf(priority) ==
    CASE priority \in 0..25 -> 0
      [] priority \in 26..50 -> 1
      [] priority \in 51..75 -> 2
      [] priority \in 76..100 -> 3

\* C32: priorities 0..25 are Low, 26..50 Normal, 51..75 High and 76..100
\* Critical; a queued request of a higher band has a strictly greater effective
\* priority than one of a lower band whatever their deadlines; and pop returns
\* a request of the highest band present among those it leaves queued.
C32_BandsDominate ==
    [][/\ \A i \in DOMAIN pq_heap' :
              pq_heap'[i].priority_level = BandOf(pq_heap'[i].priority)
       /\ \A i, j \in DOMAIN pq_heap' :
              BandOf(pq_heap'[i].priority) > BandOf(pq_heap'[j].priority)
                => EffectivePriority(pq_heap'[i], now') > EffectivePriority(pq_heap'[j], now')
       /\ (PopStep /\ last'.res.some)
            => \A i \in DOMAIN pq_heap' :
                   BandOf(pq_heap'[i].priority) <= BandOf(last'.res.value.priority)]_vars

\* pop returned the Critical request without deadline pushed at priority 76 and
\* left a High request at priority 75 with the full deadline boost.
C32_Witness ==
    /\ last.op = "pop"
    /\ last.res.some
    /\ last.res.value.priority = 76
    /\ last.res.value.deadline_ms = DeadlineMax
    /\ \E i \in DOMAIN pq_heap :
           /\ pq_heap[i].priority = 75
           /\ EffectivePriority(pq_heap[i], now) = 2500

\* The consumer in wait() whose progress is followed
Waiter == "t1"

\* A pop made now would return a request.
Poppable == PopOutcome(pq_heap, now).res.some

\* C33: a consumer blocked in wait() while the queue holds a request that pop
\* would return gets a request, unless the requests are taken by other consumers
\* or expire first; and wait() never returns None while the queue exists.
C33_NoLostWakeup ==
    /\ (AtWait(Waiter, "recv") /\ Poppable) ~> (frame[Waiter] = Idle \/ ~Poppable)
    /\ [](\A t \in Tasks : ret[t].kind = "wait" => ret[t].res.some)

\* The consumer blocked on the empty queue, a request was pushed, and wait
\* returned it.
C33_Witness ==
    /\ ret[Waiter].kind = "wait"
    /\ ret[Waiter].res.some
    /\ last.op = "push"
    /\ last.res.kind = "Ok"
    /\ last.arg.message_id = ret[Waiter].res.value.message_id
    /\ pq_notify = 0

\* The requests among the entries that were admitted after the instant `since`.
RECURSIVE AdmittedSince(_, _)
AdmittedSince(counts, since) ==
    IF counts = <<>> THEN 0
    ELSE (IF Head(counts).time > since THEN Head(counts).count ELSE 0)
         + AdmittedSince(Tail(counts), since)

\* C34: for every key, at every instant, the requests its sliding window
\* admitted during the preceding window_secs (after now - window_secs, up to
\* now) total at most requests_per_second * window_secs, and an acquire that is
\* refused adds no entry to the key's window.
C34_WindowNeverOverLimit ==
    [][/\ \A key \in DOMAIN windows' :
              AdmittedSince(windows'[key].counts, now' - rl_config.window_secs * 1000)
                  <= rl_config.requests_per_second * rl_config.window_secs
       /\ (last'.op = "acquire_n" /\ last'.res.kind # "Ok") =>
              \A key \in DOMAIN windows' :
                  /\ key \in DOMAIN windows \/ windows'[key].counts = <<>>
                  /\ key \in DOMAIN windows =>
                         /\ Len(windows'[key].counts) <= Len(windows[key].counts)
                         /\ \A i \in DOMAIN windows'[key].counts :
                                \E j \in DOMAIN windows[key].counts :
                                    windows'[key].counts[i] = windows[key].counts[j]
      ]_vars

\* C34 witness: a key's window is full with entries admitted at two different
\* instants less than window_secs apart, and the key's next acquire, which the
\* key's bucket would admit, is refused by the window.
C34_Witness ==
    /\ last.op = "acquire_n"
    /\ last.res = LimitExceeded(last.arg.key, rl_config.requests_per_second * 2, 2)
    /\ last.arg.key \in DOMAIN windows
    /\ Len(windows[last.arg.key].counts) = 2
    /\ windows[last.arg.key].counts[1].time < windows[last.arg.key].counts[2].time
    /\ now > windows[last.arg.key].counts[2].time

\* C35: under every interleaving of the tasks' try_acquire calls, and of the
\* refills they run, the stored token count stays within 0..capacity and the
\* tokens admitted so far never exceed the capacity plus the tokens refilled so
\* far.
C35_AdmittedWithinRefilled ==
    /\ tb.tokens \in 0..tb.capacity
    /\ tb_admitted <= tb.capacity + tb_refilled

\* C36: a check that found an expired entry evicts that expired entry only:
\* whatever a record running next to it does, every entry a step of
\* check_duplicate takes out of the in-memory map is out of TTL when it is
\* taken out, so the entry of a completed record stays until its TTL ends.
C36_CheckEvictsOnlyExpired ==
    [][\A t \in Tasks :
          (AtCheck(t, "remove") /\ ~AtCheck(t, "remove")')
          => \A h \in DOMAIN dd_cache :
                 h \notin DOMAIN dd_cache' => ~DedupLive(dd_cache[h], NowSecs)
      ]_vars

\* C37: whatever record_message calls were made, with whatever token amounts,
\* the tokens_today of an Active tenant is at most the tokens/day quota of its
\* tier (10 000 for Free).
C37_TokensWithinQuota ==
    \A id \in DOMAIN tenants :
        (tenants[id].status = "Active" /\ id \in DOMAIN usage)
        => usage[id].tokens_today <= tenants[id].quotas.max_tokens_per_day

\* C38: record_message on an Active tenant is refused with QuotaExceeded only
\* for messages/day or tokens/day, whatever the number of agents registered,
\* and register_agent only for the agents quota.
C38_RefusedForOwnResource ==
    /\ (last.op = "record_message" /\ last.res.kind = "QuotaExceeded")
       => last.res.resource \in {"max_messages_per_day", "max_tokens_per_day"}
    /\ (last.op = "register_agent" /\ last.res.kind = "QuotaExceeded")
       => last.res.resource = "max_agents"

\* The agent ids currently mapped to the tenant
AgentsOf(tenant_id) == {a \in DOMAIN agent_tenants : agent_tenants[a] = tenant_id}

\* C39: after any create_tenant, register_agent and delete_tenant calls, the
\* agents_count of every tenant is the number of agent ids mapped to it.
C39_AgentsCountIsMapped ==
    \A id \in DOMAIN usage : usage[id].agents_count = Cardinality(AgentsOf(id))

\* The dependency is satisfied: a step of that id is completed.
DependencyCompleted(steps, dep) ==
    \E j \in DOMAIN steps : steps[j].step_id = dep /\ steps[j].status = "TaskCompleted"

AllStepsCompleted(task) ==
    \A i \in DOMAIN task.steps : task.steps[i].status = "TaskCompleted"

\* Every step that execute_next completes in this step had all its
\* dependencies completed before, and every completed step has only completed
\* dependencies afterwards.
CompletedInOrder ==
    \A id \in DOMAIN orch_tasks' :
        LET after == orch_tasks'[id].steps
        IN  /\ \A i \in DOMAIN after :
                   after[i].status = "TaskCompleted" =>
                       \A dep \in after[i].dependencies : DependencyCompleted(after, dep)
            /\ (last'.op = "execute_next" /\ id \in DOMAIN orch_tasks) =>
                   \A i \in DOMAIN after :
                       (/\ i \in DOMAIN orch_tasks[id].steps
                        /\ after[i].status = "TaskCompleted"
                        /\ orch_tasks[id].steps[i].status # "TaskCompleted")
                       => \A dep \in after[i].dependencies :
                              DependencyCompleted(orch_tasks[id].steps, dep)

\* C40 as stated: a step is completed by execute_next only if all its
\* dependencies were completed when the call started, every completed step has
\* only completed dependencies, and in every state a task is marked Completed
\* exactly when all its steps are Completed.
C40_CompletedExactlyWhenAllSteps ==
    [][/\ CompletedInOrder
       /\ \A id \in DOMAIN orch_tasks' :
              orch_tasks'[id].status = "TaskCompleted" <=> AllStepsCompleted(orch_tasks'[id])
      ]_vars

\* C40 amended: as above, but a task is marked Completed only if all its steps
\* are Completed, and exactly when they are in the states execute_next leaves.
C40_CompletedAfterExecuteNext ==
    [][/\ CompletedInOrder
       /\ \A id \in DOMAIN orch_tasks' :
              /\ orch_tasks'[id].status = "TaskCompleted" => AllStepsCompleted(orch_tasks'[id])
              /\ (last'.op = "execute_next" /\ last'.arg.task_id = id)
                 => (orch_tasks'[id].status = "TaskCompleted"
                       <=> AllStepsCompleted(orch_tasks'[id]))
      ]_vars

\* C40 witness: the second execute_next of a task of two steps, the second
\* depending on the first, has completed the second step and the task.
C40_Witness ==
    /\ last.op = "execute_next"
    /\ last.res.kind = "Ok"
    /\ last.res.executed = <<"s2">>
    /\ "task-1" \in DOMAIN orch_tasks
    /\ Len(orch_tasks["task-1"].steps) = 2
    /\ orch_tasks["task-1"].steps[1].step_id = "s1"
    /\ orch_tasks["task-1"].steps[2].step_id = "s2"
    /\ orch_tasks["task-1"].steps[2].dependencies = {"s1"}
    /\ orch_tasks["task-1"].status = "TaskCompleted"

====
